---- MODULE Spec2Model ----
(***************************************************************************)
(* Backlog.md core: task-state reconciliation (Core.loadTasks), the        *)
(* Content Store held by a Core, ordinal reordering, sequencing, id        *)
(* generation, remote lookup, the task edit operations and the MCP         *)
(* archive / complete handlers.                                            *)
(*                                                                         *)
(* The specifications share one set of variables:                          *)
(*   SpecLoad     - one Core.loadTasks call with an abort signal           *)
(*   SpecMerge    - the conflict resolver and the merge fold as functions  *)
(*   SpecStore    - concurrent Core.getContentStore callers                *)
(*   SpecReorder  - Core.reorderTask on a stored set of tasks              *)
(*   SpecSeq, SpecOrdering, SpecIds, SpecRemote - sequencing, ordering,    *)
(*                  id generation and remote lookup                        *)
(*   SpecEdit     - create / update of task fields and task events         *)
(*   SpecCriteria - the acceptance-criteria operations                     *)
(*   SpecRace     - two overlapping createTaskFromInput calls              *)
(*   SpecSearch   - concurrent Core.getSearchService callers               *)
(*   SpecMcp      - TaskHandlers.archiveTask / completeTask                *)
(* Each specification leaves the variables of the others unchanged.        *)
(***************************************************************************)
EXTENDS Integers, Sequences, FiniteSets, TLC

VARIABLES
    \* ---- Core.loadTasks ----
    ltPc,               \* position of the loadTasks call
    aborted,            \* abortSignal.aborted
    config,             \* value returned by fs.loadConfig()
    localTasks,         \* value returned by listTasksWithMetadata()
    localBranchTasks,   \* value returned by loadLocalBranchTasks()
    remoteTasks,        \* value returned by loadRemoteTasks()
    branchStateEntries, \* entries pushed by the two branch loaders
    ltResult,           \* the Task[] loadTasks returned
    altResult,          \* the merge with remote folded before local-branch
    storeTasks,         \* the snapshot cached by the Core's ContentStore
    resolveArgs,        \* <<a, b>>: the pair last handed to the resolver
    resolveOut,         \* <<resolve(a, b), resolve(b, a)>>
    scanFailed,         \* which of the two branch loaders met a failure
    \* ---- Core.getContentStore ----
    contentStore,       \* Core.contentStore: 0 (undefined) or a store instance
    stores,             \* every ContentStore constructed so far
    callerPc,           \* position of each getContentStore caller
    callerStore,        \* the instance each caller awaits / received
    \* ---- Core.reorderTask ----
    board,              \* id -> the task getTask(id) yields (store / files)
    roPc,               \* "ready", "returned" or "thrown"
    roRequest,          \* <<params>>: taskId and orderedTaskIds of the call
    roError,            \* message of the error reorderTask threw
    roOriginal,         \* validTasks: the loaded tasks, in request order
    roRebalance,        \* requiresRebalance of calculateNewOrdinal
    roChanged,          \* changedTasks
    roUpdated,          \* <<updatedTask>> of the returned value
    roDropped,          \* requested ids that getTask did not find
    saved,              \* ids fs.saveTask wrote, in order
    \* ---- Core.listActiveSequences / moveTaskInSequences ----
    files,              \* fs.listTasks(): the task files, with dependencies
    seqPc,              \* "ready", "listed", "returned" or "thrown"
    seqRequest,         \* <<params>> of the moveTaskInSequences call
    seqError,           \* message of the error moveTaskInSequences threw
    seqResult,          \* <<{unsequenced, sequences}>> the call returned
    seqSaved,           \* ids fs.saveTask wrote for the move, in order
    \* ---- Core.generateNextId and the operations that move task files ----
    tasksDir,           \* numbers of the task files in backlog/tasks
    draftsDir,          \* numbers of the files fs.listDrafts() yields
    archiveDir,         \* numbers of the files fs.listArchivedTasks() yields
    completedDir,       \* numbers of the files fs.listCompletedTasks() yields
    hiddenIds,          \* numbers whose freshest scanned state is not "task"
    enableWatchers,     \* Core.enableWatchers
    cache,              \* <<ids>> held by the ContentStore, <<>> without one
    pendingChange,      \* a file-change notification not yet delivered
    lastIssued,         \* <<N>>: the number generateNextId returned last
    creations,          \* number of createTask calls so far
    \* ---- remote access: generateNextDocId / DecisionId, loadTaskById ----
    rmPc,               \* "ready", "generated" or "loaded"
    remoteOperations,   \* config.remoteOperations: "true", "false", "undefined"
    localIds,           \* numbers of the local documents (decisions)
    branchIds,          \* numbers found in the trees of all branches
    fetchFails,         \* gitOps.fetch() throws (offline)
    taskAt,             \* where the task asked of loadTaskById exists
    gitCalls,           \* gateway calls made, in order
    nextNumber,         \* number of the generated id, 0 before the call
    loadedFrom,         \* result of loadTaskById: a source, or "null"
    \* ---- Core.createTaskFromInput / updateTaskFromInput / updateTask ----
    stored,             \* <<task>>: the file fs.loadTask yields, <<>> if none
    edPc,               \* "ready", "returned" or "thrown"
    edRequest,          \* <<[op, input]>>: the operation called last
    edError,            \* message of the error the operation threw
    clock,              \* the minute new Date() yields
    globalCallback,     \* config.onStatusChange: <<command>> or <<>>
    callbacks,          \* runs of executeStatusCallback, in order
    edSaves,            \* tasks handed to fs.saveTask / saveDraft, in order
    \* ---- two createTaskFromInput calls in flight ----
    rcTasks,            \* numbers of the task files in backlog/tasks
    rcDrafts,           \* numbers of the draft files
    rcPc,               \* per call: "start", "generated", "saved", "thrown"
    rcId,               \* per call: the number generateNextId returned, or 0
    rcOverlapped,       \* an id was generated while another call held one
    rcWrites,           \* <<[call, id]>>: the saves, in order
    \* ---- Core.getSearchService ----
    searchService,      \* Core.searchService: 0 (undefined) or an instance
    services,           \* every SearchService constructed so far
    searchPc,           \* position of each getSearchService caller
    searchGot,          \* the instance each caller was returned, or 0
    \* ---- TaskHandlers.archiveTask / completeTask (MCP) ----
    mcTask,             \* the task core.getTask yields: status and source
    mcPlace,            \* directory holding the task file
    mcPc,               \* "ready", "returned" or "thrown"
    mcRequest,          \* <<handler>> called last
    mcError             \* code of the McpError thrown

loadVars == <<ltPc, aborted, config, localTasks, localBranchTasks, remoteTasks,
              branchStateEntries, ltResult, altResult, storeTasks,
              resolveArgs, resolveOut, scanFailed>>

\* variables that no loadTasks / merge step touches
storeVars == <<contentStore, stores, callerPc, callerStore>>

reorderVars == <<board, roPc, roRequest, roError, roOriginal, roRebalance,
                 roChanged, roUpdated, roDropped, saved>>

seqVars == <<files, seqPc, seqRequest, seqError, seqResult, seqSaved>>

idVars == <<tasksDir, draftsDir, archiveDir, completedDir, hiddenIds,
           enableWatchers, cache, pendingChange, lastIssued, creations>>

remoteVars == <<rmPc, remoteOperations, localIds, branchIds, fetchFails, taskAt,
               gitCalls, nextNumber, loadedFrom>>

editVars == <<stored, edPc, edRequest, edError, clock, globalCallback,
             callbacks, edSaves>>

raceVars == <<rcTasks, rcDrafts, rcPc, rcId, rcOverlapped, rcWrites>>

searchVars == <<searchService, services, searchPc, searchGot>>

mcpVars == <<mcTask, mcPlace, mcPc, mcRequest, mcError>>

\* the variables of the task handlers
handlerVars == <<editVars, raceVars, searchVars, mcpVars>>

notLoadVars == <<storeVars, reorderVars, seqVars, idVars, remoteVars, handlerVars>>
notStoreVars == <<loadVars, reorderVars, seqVars, idVars, remoteVars, handlerVars>>
notReorderVars == <<loadVars, storeVars, seqVars, idVars, remoteVars, handlerVars>>
notSeqVars == <<loadVars, storeVars, reorderVars, idVars, remoteVars, handlerVars>>
notIdVars == <<loadVars, storeVars, reorderVars, seqVars, remoteVars, handlerVars>>
notRemoteVars == <<loadVars, storeVars, reorderVars, seqVars, idVars, handlerVars>>
coreVars == <<loadVars, storeVars, reorderVars, seqVars, idVars, remoteVars>>
notEditVars == <<coreVars, raceVars, searchVars, mcpVars>>
notRaceVars == <<coreVars, editVars, searchVars, mcpVars>>
\* variables that no getSearchService step touches (it uses the store)
notSearchVars == <<loadVars, reorderVars, seqVars, idVars, remoteVars,
                   editVars, raceVars, mcpVars>>
notMcpVars == <<coreVars, editVars, raceVars, searchVars>>

vars == <<loadVars, storeVars, reorderVars, seqVars, idVars, remoteVars, handlerVars>>

(***************************************************************************)
(* Bounds                                                                  *)
(***************************************************************************)
MaxDate == 2
MaxLocalBranchTasks == 1
MaxRemoteTasks == 1
MaxStateEntries == 1

None == "none"

TaskIds == {"task-1", "task-2"}
IdOrder == <<"task-1", "task-2">>
Dates == 1..MaxDate
\* timestamps of the copies a loadTasks call sees
LoadDates == {1, 2}

\* DEFAULT_STATUSES (constants/index.ts), the fallback of config.statuses
DEFAULT_STATUSES == <<"To Do", "In Progress", "Done">>

\* statuses a copy may carry in SpecLoad / in SpecMerge ("Blocked" is not in
\* the configured list)
LoadStatuses == {"To Do"}
MergeStatuses == {"To Do", "In Progress", "Blocked"}

Strategies == {"most_recent", "most_progressed", None}
\* with a single status among the copies of SpecLoad, most_progressed is
\* reached through the default only
LoadStrategies == {"most_recent", None}

(***************************************************************************)
(* Task copies and state entries                                           *)
(***************************************************************************)
TaskCopy(id, status, date, source, branch) ==
    [id |-> id, status |-> status, lastModified |-> date,
     source |-> source, branch |-> branch]

LocalCopies(statuses, dates) ==
    {TaskCopy(i, s, d, None, None) : i \in TaskIds, s \in statuses, d \in dates}
BranchCopies(statuses, dates) ==
    {TaskCopy(i, s, d, "local-branch", "feature") :
        i \in TaskIds, s \in statuses, d \in dates}
RemoteCopies(statuses, dates) ==
    {TaskCopy(i, s, d, "remote", "origin/main") :
        i \in TaskIds, s \in statuses, d \in dates}

EntryTypes == {"task", "document"}
StateEntries ==
    {[id |-> i, type |-> ty, branch |-> "feature", lastModified |-> d] :
        i \in TaskIds, ty \in EntryTypes, d \in LoadDates}

SeqsUpTo(S, n) == UNION {[1..k -> S] : k \in 0..n}

RECURSIVE SeqToSet(_)
SeqToSet(s) == IF s = <<>> THEN {} ELSE {Head(s)} \cup SeqToSet(Tail(s))

\* fs.listTasks(): at most one file per id, listed in id order
RECURSIVE FilesOf(_, _)
FilesOf(ids, pick) ==
    IF ids = <<>> THEN <<>>
    ELSE pick[Head(ids)] \o FilesOf(Tail(ids), pick)

LocalListings(statuses, dates) ==
    {FilesOf(IdOrder, pick) :
        pick \in {f \in [TaskIds -> SeqsUpTo(LocalCopies(statuses, dates), 1)] :
                    \A i \in TaskIds : \A j \in 1..Len(f[i]) : f[i][j].id = i}}

(***************************************************************************)
(* JavaScript Map<string, Task>, insertion ordered                         *)
(***************************************************************************)
MapHas(m, k) == \E i \in 1..Len(m) : m[i].k = k
MapGet(m, k) == m[CHOOSE i \in 1..Len(m) : m[i].k = k].v

MapSetAppend(m, k, v) == Append(m, [k |-> k, v |-> v])
MapSet(m, k, v) ==
    IF MapHas(m, k)
    THEN [i \in 1..Len(m) |-> IF m[i].k = k THEN [k |-> k, v |-> v] ELSE m[i]]
    ELSE Append(m, [k |-> k, v |-> v])

MapValues(m) == [i \in 1..Len(m) |-> m[i].v]

(***************************************************************************)
(* Conflict resolver (task-loader.ts, resolveTaskConflict)                 *)
(***************************************************************************)
\* an index that ranks a status missing from the list above every listed one
StatusIndexUnknownLast(statuses, status) ==
    IF \E i \in 1..Len(statuses) : statuses[i] = status
    THEN (CHOOSE i \in 1..Len(statuses) : statuses[i] = status) - 1
    ELSE Len(statuses)
\* statuses.indexOf(status): 0-based position, -1 when absent
StatusIndex(statuses, status) ==
    IF \E i \in 1..Len(statuses) : statuses[i] = status
    THEN (CHOOSE i \in 1..Len(statuses) : statuses[i] = status) - 1
    ELSE -1

TaskDate(t) == t.lastModified

MostRecent(existing, incoming) ==
    IF TaskDate(incoming) > TaskDate(existing) THEN incoming ELSE existing

\* a resolver that always takes the incoming copy
ResolveAlwaysIncoming(existing, incoming, statuses, strategy) == incoming
resolveTaskConflict(existing, incoming, statuses, strategy) ==
    IF strategy = "most_recent"
    THEN MostRecent(existing, incoming)
    ELSE LET ei == StatusIndex(statuses, existing.status)
             ni == StatusIndex(statuses, incoming.status)
         IN  IF ni > ei THEN incoming
             ELSE IF ni < ei THEN existing
             ELSE MostRecent(existing, incoming)

(***************************************************************************)
(* Core.loadTasks: configuration defaults, seeding and the two folds       *)
(***************************************************************************)
\* config?.statuses || [...DEFAULT_STATUSES]; a configuration without the key
\* is drawn with the default list already in place
ConfigStatuses(cfg) == cfg.statuses

ResolutionStrategy(cfg) ==
    IF cfg.taskResolutionStrategy = None THEN "most_progressed"
    ELSE cfg.taskResolutionStrategy

RECURSIVE SeedLocal(_, _)
SeedLocal(m, tasks) ==
    IF tasks = <<>> THEN m
    ELSE SeedLocal(MapSet(m, Head(tasks).id,
                          [Head(tasks) EXCEPT !.source = "local"]),
                   Tail(tasks))

MergeStepKeepExisting(m, task, statuses, strategy) ==
    IF ~MapHas(m, task.id) THEN MapSet(m, task.id, task) ELSE m
MergeStepTakeIncoming(m, task, statuses, strategy) ==
    MapSet(m, task.id, task)
MergeStep(m, task, statuses, strategy) ==
    IF ~MapHas(m, task.id)
    THEN MapSet(m, task.id, task)
    ELSE MapSet(m, task.id,
                resolveTaskConflict(MapGet(m, task.id), task, statuses, strategy))

RECURSIVE FoldTasks(_, _, _, _)
FoldTasks(m, tasks, statuses, strategy) ==
    IF tasks = <<>> THEN m
    ELSE FoldTasks(MergeStep(m, Head(tasks), statuses, strategy),
                   Tail(tasks), statuses, strategy)

\* lines 1763-1795: local seed, then local-branch tasks, then remote tasks
MergeTasks(local, branch, remote, statuses, strategy) ==
    FoldTasks(FoldTasks(SeedLocal(<<>>, local), branch, statuses, strategy),
              remote, statuses, strategy)

\* the same fold with the remote list taken before the local-branch list
MergeTasksRemoteFirst(local, branch, remote, statuses, strategy) ==
    FoldTasks(FoldTasks(SeedLocal(<<>>, local), remote, statuses, strategy),
              branch, statuses, strategy)

(***************************************************************************)
(* State-snapshot filter                                                   *)
(***************************************************************************)
LatestUpdatePreferNew(latest, entry) ==
    IF ~MapHas(latest, entry.id)
       \/ entry.lastModified >= MapGet(latest, entry.id).lastModified
    THEN MapSet(latest, entry.id, entry)
    ELSE latest
LatestUpdate(latest, entry) ==
    IF ~MapHas(latest, entry.id)
       \/ entry.lastModified > MapGet(latest, entry.id).lastModified
    THEN MapSet(latest, entry.id, entry)
    ELSE latest

RECURSIVE FoldEntries(_, _)
FoldEntries(latest, entries) ==
    IF entries = <<>> THEN latest
    ELSE FoldEntries(LatestUpdate(latest, Head(entries)), Tail(entries))

LocalEntry(task) ==
    [id |-> task.id, type |-> "task", branch |-> "local",
     lastModified |-> task.lastModified]

buildLatestStateMap(stateEntries, local) ==
    FoldEntries(FoldEntries(<<>>, stateEntries),
                [i \in 1..Len(local) |-> LocalEntry(local[i])])

filterTasksByStateSnapshots(tasks, latestState) ==
    SelectSeq(tasks,
              LAMBDA t : ~MapHas(latestState, t.id)
                         \/ MapGet(latestState, t.id).type = "task")

(***************************************************************************)
(* Core.loadTasks as a process (lines 1730-1819)                           *)
(***************************************************************************)
NoConfig ==
    [taskResolutionStrategy |-> None, checkActiveBranches |-> TRUE,
     statuses |-> DEFAULT_STATUSES]

Configs ==
    [taskResolutionStrategy : LoadStrategies, checkActiveBranches : BOOLEAN,
     statuses : {DEFAULT_STATUSES}]

\* the snapshot the ContentStore cached before this loadTasks call
CachedSnapshot == <<TaskCopy("task-1", "To Do", 1, "local", None)>>

NoFailure == [remote |-> FALSE, branch |-> FALSE]

LoadIdle ==
    /\ ltPc = "idle"
    /\ config = NoConfig
    /\ localTasks = <<>>
    /\ localBranchTasks = <<>>
    /\ remoteTasks = <<>>
    /\ branchStateEntries = <<>>
    /\ ltResult = <<>>
    /\ altResult = <<>>
    /\ aborted = FALSE
    /\ storeTasks = CachedSnapshot
    /\ resolveArgs = <<>>
    /\ resolveOut = <<>>
    /\ scanFailed = NoFailure

StoreIdle ==
    /\ contentStore = 0
    /\ stores = <<>>
    /\ callerPc = [c \in {} |-> "idle"]
    /\ callerStore = [c \in {} |-> 0]

ReorderIdle ==
    /\ board = <<>>
    /\ roPc = "ready"
    /\ roRequest = <<>>
    /\ roError = ""
    /\ roOriginal = <<>>
    /\ roRebalance = FALSE
    /\ roChanged = <<>>
    /\ roUpdated = <<>>
    /\ roDropped = <<>>
    /\ saved = <<>>

IdIdle ==
    /\ tasksDir = {}
    /\ draftsDir = {}
    /\ archiveDir = {}
    /\ completedDir = {}
    /\ hiddenIds = {}
    /\ enableWatchers = FALSE
    /\ cache = <<>>
    /\ pendingChange = FALSE
    /\ lastIssued = <<>>
    /\ creations = 0

RemoteIdle ==
    /\ rmPc = "ready"
    /\ remoteOperations = "undefined"
    /\ localIds = {}
    /\ branchIds = {}
    /\ fetchFails = FALSE
    /\ taskAt = [local |-> FALSE, localBranch |-> FALSE, remote |-> FALSE]
    /\ gitCalls = <<>>
    /\ nextNumber = 0
    /\ loadedFrom = "null"

EditIdle ==
    /\ stored = <<>>
    /\ edPc = "ready"
    /\ edRequest = <<>>
    /\ edError = ""
    /\ clock = 0
    /\ globalCallback = <<>>
    /\ callbacks = <<>>
    /\ edSaves = <<>>

RaceCalls == {1, 2}

RaceIdle ==
    /\ rcTasks = {}
    /\ rcDrafts = {}
    /\ rcPc = [c \in RaceCalls |-> "start"]
    /\ rcId = [c \in RaceCalls |-> 0]
    /\ rcOverlapped = FALSE
    /\ rcWrites = <<>>

SearchCallers == {"s1", "s2"}

SearchIdle ==
    /\ searchService = 0
    /\ services = <<>>
    /\ searchPc = [c \in SearchCallers |-> "idle"]
    /\ searchGot = [c \in SearchCallers |-> 0]

McpIdle ==
    /\ mcTask = <<>>
    /\ mcPlace = "tasks"
    /\ mcPc = "ready"
    /\ mcRequest = <<>>
    /\ mcError = ""

\* no task handler under way
HandlersIdle == EditIdle /\ RaceIdle /\ SearchIdle /\ McpIdle

\* no sequencing request, no id generation and no remote lookup under way
OrderingIdle ==
    /\ files = <<>>
    /\ seqPc = "ready"
    /\ seqRequest = <<>>
    /\ seqError = ""
    /\ seqResult = <<>>
    /\ seqSaved = <<>>
    /\ IdIdle
    /\ RemoteIdle

SeqIdle == OrderingIdle /\ HandlersIdle

\* nothing under way in the loader, the store, the reorder and sequence paths
CoreIdle == LoadIdle /\ StoreIdle /\ ReorderIdle /\ OrderingIdle

InitLoad ==
    /\ LoadIdle
    /\ StoreIdle
    /\ ReorderIdle
    /\ SeqIdle

\* a cancellation check that passes whatever the signal says
LastCheckMissing(flag) == FALSE
\* if (abortSignal?.aborted) throw new Error("Loading cancelled")
CancellationCheck(flag) == flag

\* the "Loading cancelled" throw: the call ends, its locals are gone
Cancelled ==
    /\ ltPc' = "cancelled"
    /\ config' = NoConfig
    /\ localTasks' = <<>>
    /\ localBranchTasks' = <<>>
    /\ remoteTasks' = <<>>
    /\ branchStateEntries' = <<>>
    /\ ltResult' = <<>>
    /\ altResult' = <<>>

\* the caller invokes loadTasks(progressCallback, abortSignal); the call runs
\* to its first await, fs.loadConfig()
LoadTasksCall ==
    /\ ltPc = "idle"
    /\ ltPc' = "await_config"
    /\ UNCHANGED <<aborted, config, localTasks, localBranchTasks, remoteTasks,
                   branchStateEntries, ltResult, altResult, storeTasks,
                   resolveArgs, resolveOut, scanFailed,
                   notLoadVars>>

\* the owner of the AbortController aborts while loadTasks is suspended in
\* an await (or before it is called)
AbortSignalFires ==
    /\ ltPc \in {"idle", "await_config", "await_local", "await_branches"}
    /\ ~aborted
    /\ aborted' = TRUE
    /\ UNCHANGED <<ltPc, config, localTasks, localBranchTasks, remoteTasks,
                   branchStateEntries, ltResult, altResult, storeTasks,
                   resolveArgs, resolveOut, scanFailed,
                   notLoadVars>>

\* lines 1731-1741: loadConfig resolves, cancellation check, then the call
\* suspends in listTasksWithMetadata()
LoadTasksConfigLoaded ==
    /\ ltPc = "await_config"
    /\ \E cfg \in Configs :
         IF CancellationCheck(aborted)
         THEN Cancelled
         ELSE /\ ltPc' = "await_local"
              /\ config' = cfg
              /\ UNCHANGED <<localTasks, localBranchTasks, remoteTasks,
                             branchStateEntries, ltResult, altResult>>
    /\ UNCHANGED <<aborted, storeTasks, resolveArgs, resolveOut, scanFailed,
                   notLoadVars>>

\* lines 1741-1756: the local listing resolves, cancellation check, progress
\* message, then the call suspends in Promise.all of the two branch loaders
LoadTasksLocalListed ==
    /\ ltPc = "await_local"
    /\ \E local \in LocalListings(LoadStatuses, LoadDates) :
         IF CancellationCheck(aborted)
         THEN Cancelled
         ELSE /\ ltPc' = "await_branches"
              /\ localTasks' = local
              /\ UNCHANGED <<config, localBranchTasks, remoteTasks,
                             branchStateEntries, ltResult, altResult>>
    /\ UNCHANGED <<aborted, storeTasks, resolveArgs, resolveOut, scanFailed,
                   notLoadVars>>

\* lines 1809-1816
FilterStep(cfg, tasks, entries, local) ==
    IF cfg.checkActiveBranches = FALSE
    THEN tasks
    ELSE filterTasksByStateSnapshots(tasks, buildLatestStateMap(entries, local))

LoadTasksResult(cfg, local, branch, remote, entries) ==
    FilterStep(cfg,
               MapValues(MergeTasks(local, branch, remote, ConfigStatuses(cfg),
                                    ResolutionStrategy(cfg))),
               entries, local)

\* what a branch loader hands back: the tasks it found, or, when scanning
\* or fetching failed, no task at all
LoaderOutcomes(copies, max) ==
    {[failed |-> FALSE, tasks |-> ts] : ts \in SeqsUpTo(copies, max)}
        \cup {[failed |-> TRUE, tasks |-> <<>>]}

\* a loader whose failure rejects its promise
LoaderRejectsOnFailure(outcome) == outcome.failed
\* loadRemoteTasks / loadLocalBranchTasks recover from a failure themselves:
\* their promise never rejects
LoaderRejects(outcome) == FALSE

\* Promise.all of line 1753 rejects and loadTasks has no handler around it
LoadFailed ==
    /\ ltPc' = "failed"
    /\ config' = NoConfig
    /\ localTasks' = <<>>
    /\ localBranchTasks' = <<>>
    /\ remoteTasks' = <<>>
    /\ branchStateEntries' = <<>>
    /\ ltResult' = <<>>
    /\ altResult' = <<>>

\* lines 1753-1818: both loaders resolve; everything after this await is
\* synchronous: the cancellation checks, the two folds, the progress callback
\* of line 1814 (run only when cross-branch checking is on; the callback is
\* caller code and may abort the signal), the filter and the return
LoadTasksBranchesLoaded ==
    /\ ltPc = "await_branches"
    /\ \E branchOutcome \in LoaderOutcomes(BranchCopies(LoadStatuses, LoadDates),
                                            MaxLocalBranchTasks),
          remoteOutcome \in LoaderOutcomes(RemoteCopies(LoadStatuses, LoadDates),
                                            MaxRemoteTasks) :
         IF LoaderRejects(branchOutcome) \/ LoaderRejects(remoteOutcome)
         THEN /\ LoadFailed
              /\ aborted' = aborted
              /\ scanFailed' = [remote |-> remoteOutcome.failed,
                                branch |-> branchOutcome.failed]
         ELSE IF CancellationCheck(aborted)
         THEN Cancelled /\ aborted' = aborted /\ scanFailed' = scanFailed
         ELSE \E entries \in SeqsUpTo(StateEntries, MaxStateEntries),
                 callbackAborts \in BOOLEAN :
                LET branch == branchOutcome.tasks
                    remote == remoteOutcome.tasks
                IN  /\ config.checkActiveBranches = FALSE =>
                          (entries = <<>> /\ ~callbackAborts)
                    /\ (branchOutcome.failed /\ remoteOutcome.failed) =>
                          entries = <<>>
                    /\ ltPc' = "returned"
                    /\ localBranchTasks' = branch
                    /\ remoteTasks' = remote
                    /\ branchStateEntries' = entries
                    /\ scanFailed' = [remote |-> remoteOutcome.failed,
                                      branch |-> branchOutcome.failed]
                    /\ ltResult' = LoadTasksResult(config, localTasks, branch,
                                                   remote, entries)
                    /\ altResult' = <<>>
                    /\ aborted' = (aborted \/ callbackAborts)
                    /\ UNCHANGED <<config, localTasks>>
    /\ UNCHANGED <<storeTasks, resolveArgs, resolveOut, notLoadVars>>

NextLoad ==
    \/ LoadTasksCall
    \/ AbortSignalFires
    \/ LoadTasksConfigLoaded
    \/ LoadTasksLocalListed
    \/ LoadTasksBranchesLoaded

SpecLoad == InitLoad /\ [][NextLoad]_vars

(***************************************************************************)
(* The resolver and the merge fold as functions of their inputs            *)
(***************************************************************************)
StatusOrders == {DEFAULT_STATUSES, <<"In Progress", "To Do">>}

MergeConfigs ==
    [taskResolutionStrategy : Strategies, checkActiveBranches : {FALSE},
     statuses : StatusOrders]

OneId(S) == {t \in S : t.id = "task-1"}

\* the copies of one id, from any of the three sources
AnyCopies ==
    OneId(LocalCopies(MergeStatuses, Dates))
        \cup OneId(BranchCopies(MergeStatuses, Dates))
        \cup OneId(RemoteCopies(MergeStatuses, Dates))

MergeIdle ==
    /\ branchStateEntries = <<>>
    /\ ltResult = <<>>
    /\ altResult = <<>>
    /\ aborted = FALSE
    /\ storeTasks = CachedSnapshot
    /\ resolveOut = <<>>
    /\ scanFailed = NoFailure
    /\ StoreIdle
    /\ ReorderIdle
    /\ SeqIdle

\* either the three input lists of a merge, or a pair of copies for the
\* resolver
InitMerge ==
    /\ config \in MergeConfigs
    /\ \/ /\ ltPc = "inputs"
          /\ localTasks \in SeqsUpTo(OneId(LocalCopies(MergeStatuses, Dates)), 1)
          /\ localBranchTasks \in
                SeqsUpTo(OneId(BranchCopies(MergeStatuses, Dates)),
                         MaxLocalBranchTasks)
          /\ remoteTasks \in
                SeqsUpTo(OneId(RemoteCopies(MergeStatuses, Dates)), MaxRemoteTasks)
          /\ resolveArgs = <<>>
       \/ /\ ltPc = "pair"
          /\ localTasks = <<>>
          /\ localBranchTasks = <<>>
          /\ remoteTasks = <<>>
          /\ resolveArgs \in AnyCopies \X AnyCopies
    /\ MergeIdle

\* every copy of the inputs, the local ones as the merge seeds them
InputCopies ==
    SeqToSet(MapValues(SeedLocal(<<>>, localTasks)))
        \cup SeqToSet(localBranchTasks) \cup SeqToSet(remoteTasks)

\* the merge of loadTasks, and the same merge with the two branch folds swapped
MergeBothOrders ==
    /\ ltPc = "inputs"
    /\ ltPc' = "merged"
    /\ ltResult' = MapValues(MergeTasks(localTasks, localBranchTasks, remoteTasks,
                                        ConfigStatuses(config),
                                        ResolutionStrategy(config)))
    /\ altResult' = MapValues(MergeTasksRemoteFirst(localTasks, localBranchTasks,
                                                    remoteTasks,
                                                    ConfigStatuses(config),
                                                    ResolutionStrategy(config)))
    /\ UNCHANGED <<aborted, config, localTasks, localBranchTasks, remoteTasks,
                   branchStateEntries, storeTasks, resolveArgs, resolveOut,
                   scanFailed,
                   notLoadVars>>

\* the resolver applied to the pair, in both argument orders
ResolveBothWays ==
    /\ ltPc = "pair"
    /\ resolveOut' =
          <<resolveTaskConflict(resolveArgs[1], resolveArgs[2],
                                ConfigStatuses(config), ResolutionStrategy(config)),
            resolveTaskConflict(resolveArgs[2], resolveArgs[1],
                                ConfigStatuses(config), ResolutionStrategy(config))>>
    /\ ltPc' = "resolved"
    /\ UNCHANGED <<aborted, config, localTasks, localBranchTasks, remoteTasks,
                   branchStateEntries, ltResult, altResult, storeTasks,
                   resolveArgs, scanFailed,
                   notLoadVars>>

NextMerge ==
    \/ MergeBothOrders
    \/ ResolveBothWays

SpecMerge == InitMerge /\ [][NextMerge]_vars

(***************************************************************************)
(* Core.getContentStore / disposeContentStore with the ContentStore         *)
(* hydration state machine (content-store.ts)                              *)
(***************************************************************************)
MaxStores == 2
MaxInvalidations == 1

Callers == {"c1", "c2", "c3"}

NewStore ==
    [state |-> "Uninitialized", inFlight |-> 0, started |-> 0,
     invalidated |-> 0, disposed |-> FALSE]

\* ContentStore.ensureInitialized(): start a hydration only from
\* Uninitialized; while Hydrating the caller joins the hydration in flight
ensureInitialized(store) ==
    IF store.state = "Uninitialized"
    THEN [store EXCEPT !.state = "Hydrating", !.inFlight = @ + 1,
                       !.started = @ + 1]
    ELSE store

\* a getContentStore that constructs a store on every call
AlwaysConstruct(cs) == TRUE
\* if (!this.contentStore)
MustConstruct(cs) == cs = 0

InitStore ==
    /\ LoadIdle
    /\ ReorderIdle
    /\ SeqIdle
    /\ contentStore = 0
    /\ stores = <<>>
    /\ callerPc = [c \in Callers |-> "idle"]
    /\ callerStore = [c \in Callers |-> 0]

\* lines 134-139: construct the store when the field is empty, call
\* ensureInitialized() on it and suspend in the await
GetContentStore(c) ==
    /\ callerPc[c] = "idle"
    /\ LET construct == MustConstruct(contentStore)
           created == IF construct THEN Append(stores, NewStore) ELSE stores
           cs == IF construct THEN Len(created) ELSE contentStore
       IN  /\ Len(created) <= MaxStores
           /\ contentStore' = cs
           /\ stores' = [created EXCEPT ![cs] = ensureInitialized(created[cs])]
           /\ callerStore' = [callerStore EXCEPT ![c] = cs]
    /\ callerPc' = [callerPc EXCEPT ![c] = "awaiting"]
    /\ UNCHANGED notStoreVars

\* the loader of store s (() => this.loadTasks()) resolves: Hydrating -> Ready
HydrationCompletes(s) ==
    /\ stores[s].state = "Hydrating"
    /\ stores' = [stores EXCEPT ![s].state = "Ready", ![s].inFlight = @ - 1]
    /\ UNCHANGED <<contentStore, callerPc, callerStore, notStoreVars>>

\* line 140: the await ends once the awaited store is Ready
GetContentStoreReturns(c) ==
    /\ callerPc[c] = "awaiting"
    /\ stores[callerStore[c]].state = "Ready"
    /\ callerPc' = [callerPc EXCEPT ![c] = "returned"]
    /\ UNCHANGED <<contentStore, stores, callerStore, notStoreVars>>

\* the caller goes on and may call again
CallerContinues(c) ==
    /\ callerPc[c] = "returned"
    /\ callerPc' = [callerPc EXCEPT ![c] = "idle"]
    /\ callerStore' = [callerStore EXCEPT ![c] = 0]
    /\ UNCHANGED <<contentStore, stores, notStoreVars>>

\* a file-change notification invalidates the Ready store: Ready -> Hydrating
Invalidate ==
    /\ contentStore # 0
    /\ stores[contentStore].state = "Ready"
    /\ stores[contentStore].invalidated < MaxInvalidations
    /\ stores' = [stores EXCEPT ![contentStore].state = "Hydrating",
                                ![contentStore].inFlight = @ + 1,
                                ![contentStore].started = @ + 1,
                                ![contentStore].invalidated = @ + 1]
    /\ UNCHANGED <<contentStore, callerPc, callerStore, notStoreVars>>

\* lines 340-345: dispose the store and clear the field; a hydration of the
\* disposed store that is in flight runs on (its loader takes no signal)
DisposeContentStore ==
    /\ contentStore # 0
    /\ stores' = [stores EXCEPT ![contentStore].disposed = TRUE]
    /\ contentStore' = 0
    /\ UNCHANGED <<callerPc, callerStore, notStoreVars>>

NextStore ==
    \/ \E c \in Callers : GetContentStore(c)
    \/ \E s \in 1..Len(stores) : HydrationCompletes(s)
    \/ \E c \in Callers : GetContentStoreReturns(c)
    \/ \E c \in Callers : CallerContinues(c)
    \/ Invalidate
    \/ DisposeContentStore

SpecStore == InitStore /\ [][NextStore]_vars

(***************************************************************************)
(* Ordinal reorder engine (reorder.ts) and Core.reorderTask                *)
(***************************************************************************)
DEFAULT_ORDINAL_STEP == 1000
MaxOrdered == 3

\* task.ordinal === undefined
Undefined == -1

BoardIds == <<"task-1", "task-2", "task-3">>
UnknownId == "task-9"
RequestIds == SeqToSet(BoardIds) \cup {UnknownId}

OrdinalChoices == {Undefined, 1000, 1001, 2000}

BoardTask(id, status, milestone, ordinal, branch) ==
    [id |-> id, status |-> status, milestone |-> milestone,
     ordinal |-> ordinal, branch |-> branch]

\* previous?.ordinal / next?.ordinal of a neighbour that may be null
NeighbourOrdinal(neighbour) ==
    IF neighbour = <<>> THEN Undefined ELSE neighbour[1].ordinal

\* calculateNewOrdinal({previous, next, defaultStep}): the midpoint when the
\* neighbours leave at least one free integer between them, otherwise
\* requiresRebalance with a best-effort ordinal; an absent previous counts
\* as ordinal 0, an absent next leaves room for a whole step
calculateNewOrdinal(previous, next, defaultStep) ==
    LET prevOrdinal == NeighbourOrdinal(previous)
        nextOrdinal == NeighbourOrdinal(next)
        low == IF prevOrdinal = Undefined THEN 0 ELSE prevOrdinal
    IN  IF nextOrdinal = Undefined
        THEN [ordinal |-> low + defaultStep, requiresRebalance |-> FALSE]
        ELSE IF nextOrdinal - low >= 2
        THEN [ordinal |-> low + ((nextOrdinal - low) \div 2),
              requiresRebalance |-> FALSE]
        ELSE [ordinal |-> low + defaultStep, requiresRebalance |-> TRUE]

\* ordinals startOrdinal, startOrdinal + defaultStep, ... over the whole list
RECURSIVE AssignSequential(_, _, _)
AssignSequential(tasks, ordinal, defaultStep) ==
    IF tasks = <<>> THEN <<>>
    ELSE <<[Head(tasks) EXCEPT !.ordinal = ordinal]>>
         \o AssignSequential(Tail(tasks), ordinal + defaultStep, defaultStep)

\* keep an ordinal that is above its predecessor's, otherwise shift the task
\* one step past the predecessor
RECURSIVE AssignMinimal(_, _, _, _)
AssignMinimal(tasks, last, startOrdinal, defaultStep) ==
    IF tasks = <<>> THEN <<>>
    ELSE LET t == Head(tasks)
             assigned ==
                 IF t.ordinal = Undefined \/ (last # Undefined /\ t.ordinal <= last)
                 THEN (IF last = Undefined THEN startOrdinal
                       ELSE last + defaultStep)
                 ELSE t.ordinal
         IN  <<[t EXCEPT !.ordinal = assigned]>>
             \o AssignMinimal(Tail(tasks), assigned, startOrdinal, defaultStep)

AdjacentShareOrdinal(tasks) ==
    \E i \in 1..(Len(tasks) - 1) :
        tasks[i].ordinal # Undefined /\ tasks[i].ordinal = tasks[i + 1].ordinal

\* resolveOrdinalConflicts(tasks, {defaultStep, startOrdinal, forceSequential}):
\* the tasks whose ordinal it reassigns, with the new ordinal
resolveOrdinalConflicts(tasks, defaultStep, startOrdinal, forceSequential) ==
    LET assigned ==
            IF forceSequential \/ AdjacentShareOrdinal(tasks)
            THEN AssignSequential(tasks, startOrdinal, defaultStep)
            ELSE AssignMinimal(tasks, Undefined, startOrdinal, defaultStep)
        changed == {i \in 1..Len(tasks) : assigned[i].ordinal # tasks[i].ordinal}
    IN  SelectSeq(assigned, LAMBDA t : \E i \in changed : assigned[i] = t)

(***************************************************************************)
(* Core.reorderTask (lines 1057-1178)                                      *)
(***************************************************************************)
Statuses == {"To Do", "In Progress"}
NoMilestone == "none"
\* params.targetMilestone: not given, null, or a milestone name
TargetMilestones == {"undefined", "null", "m1"}

\* the tasks getTask can yield: task-3 may live on another branch
Boards ==
    {b \in [1..Len(BoardIds) ->
                {BoardTask(i, "To Do", NoMilestone, o, br) :
                    i \in SeqToSet(BoardIds), o \in OrdinalChoices,
                    br \in {None, "feature"}}] :
        \A k \in 1..Len(BoardIds) :
            /\ b[k].id = BoardIds[k]
            /\ (k < Len(BoardIds) => b[k].branch = None)}

ReorderReady ==
    /\ roPc = "ready"
    /\ roRequest = <<>>
    /\ roError = ""
    /\ roOriginal = <<>>
    /\ roRebalance = FALSE
    /\ roChanged = <<>>
    /\ roUpdated = <<>>
    /\ roDropped = <<>>
    /\ saved = <<>>

InitReorder ==
    /\ LoadIdle
    /\ StoreIdle
    /\ SeqIdle
    /\ board \in Boards
    /\ ReorderReady

\* this.getTask(id): the task, or null (the empty sequence)
getTask(id) ==
    SelectSeq(board, LAMBDA t : t.id = id)

RECURSIVE LoadAll(_)
LoadAll(ids) ==
    IF ids = <<>> THEN <<>> ELSE getTask(Head(ids)) \o LoadAll(Tail(ids))

\* a duplicate check that lets every list through
NeverDuplicate(ids) == FALSE
\* lines 1078-1084
HasDuplicate(ids) ==
    \E i, j \in 1..Len(ids) : i < j /\ ids[i] = ids[j]

IndexOf(tasks, id) == CHOOSE i \in 1..Len(tasks) : tasks[i].id = id

\* lines 1135-1140
UpdatedMoved(moved, targetStatus, targetMilestone, newOrdinal) ==
    [moved EXCEPT
        !.status = targetStatus,
        !.milestone = IF targetMilestone = "undefined" THEN @
                      ELSE IF targetMilestone = "null" THEN NoMilestone
                      ELSE targetMilestone,
        !.ordinal = newOrdinal]

\* a tasksInOrder that leaves the moved task as it was loaded
TasksInOrderStale(validTasks, targetIndex, updatedMoved) == validTasks
\* line 1142
TasksInOrder(validTasks, targetIndex, updatedMoved) ==
    [i \in 1..Len(validTasks) |->
        IF i = targetIndex THEN updatedMoved ELSE validTasks[i]]

\* a resolution call that never forces the sequential pass
ResolutionNeverForced(tasksInOrder, defaultStep, requiresRebalance) ==
    resolveOrdinalConflicts(tasksInOrder, defaultStep, defaultStep, FALSE)
\* lines 1143-1147
ResolutionUpdates(tasksInOrder, defaultStep, requiresRebalance) ==
    resolveOrdinalConflicts(tasksInOrder, defaultStep, defaultStep,
                            requiresRebalance)

RECURSIVE PutAll(_, _)
PutAll(m, updates) ==
    IF updates = <<>> THEN m
    ELSE PutAll(MapSet(m, Head(updates).id, Head(updates)), Tail(updates))

\* lines 1149-1155: updates keyed by id, the moved task added when missing
UpdatesMap(resolutionUpdates, updatedMoved) ==
    LET filled == PutAll(<<>>, resolutionUpdates)
    IN  IF MapHas(filled, updatedMoved.id) THEN filled
        ELSE MapSet(filled, updatedMoved.id, updatedMoved)

\* every task of the updates map, changed or not
AllUpdatedTasks(updatesMap, validTasks) == MapValues(updatesMap)
\* lines 1157-1166
ChangedTasks(updatesMap, validTasks) ==
    SelectSeq(MapValues(updatesMap),
              LAMBDA t :
                  \/ ~\E i \in 1..Len(validTasks) : validTasks[i].id = t.id
                  \/ LET original == validTasks[IndexOf(validTasks, t.id)]
                     IN  \/ original.ordinal # t.ordinal
                         \/ original.status # t.status
                         \/ original.milestone # t.milestone)

\* updateTasksBulk -> updateTask -> fs.saveTask for every changed task
RECURSIVE SaveAll(_, _)
SaveAll(b, changed) ==
    IF changed = <<>> THEN b
    ELSE SaveAll([i \in 1..Len(b) |->
                    IF b[i].id = Head(changed).id THEN Head(changed) ELSE b[i]],
                 Tail(changed))

\* line 1095: the requested ids that loaded as null and are filtered out
DroppedIds(orderedTaskIds) ==
    SelectSeq(orderedTaskIds, LAMBDA id : getTask(id) = <<>>)

\* updateTasksBulk (lines 1043-1047): the tasks are saved one after the other;
\* a save that throws ends the loop with the earlier tasks written
SavedBeforeFailure(changed, failAt) ==
    IF failAt = 0 THEN changed ELSE SubSeq(changed, 1, failAt - 1)

\* a throw of lines 1071-1084, before anything is loaded
Throws(message) ==
    /\ roPc' = "thrown"
    /\ roError' = message
    /\ UNCHANGED <<board, roOriginal, roRebalance, roChanged, roUpdated,
                   roDropped, saved>>

\* a throw of lines 1099-1108, after the requested tasks were loaded
ThrowsLoaded(message, validTasks, dropped) ==
    /\ roPc' = "thrown"
    /\ roError' = message
    /\ roOriginal' = validTasks
    /\ roDropped' = dropped
    /\ UNCHANGED <<board, roRebalance, roChanged, roUpdated, saved>>

ReorderTask ==
    /\ roPc = "ready"
    /\ \E taskId \in RequestIds,
          orderedTaskIds \in SeqsUpTo(RequestIds, MaxOrdered),
          targetStatus \in Statuses,
          targetMilestone \in TargetMilestones :
         LET defaultStep == DEFAULT_ORDINAL_STEP
             validTasks == LoadAll(orderedTaskIds)
         IN  /\ roRequest' = <<[taskId |-> taskId,
                                orderedTaskIds |-> orderedTaskIds]>>
             /\ IF orderedTaskIds = <<>>
                 THEN Throws("orderedTaskIds must include at least one task")
                 ELSE IF taskId \notin SeqToSet(orderedTaskIds)
                 THEN Throws("orderedTaskIds must include the task being moved")
                 ELSE IF HasDuplicate(orderedTaskIds)
                 THEN Throws("Duplicate task id in orderedTaskIds")
                 ELSE IF ~\E i \in 1..Len(validTasks) : validTasks[i].id = taskId
                 THEN ThrowsLoaded("Task not found while reordering", validTasks,
                                   DroppedIds(orderedTaskIds))
                 ELSE LET targetIndex == IndexOf(validTasks, taskId)
                          movedTask == validTasks[targetIndex]
                          previousTask == IF targetIndex > 1
                                          THEN <<validTasks[targetIndex - 1]>>
                                          ELSE <<>>
                          nextTask == IF targetIndex < Len(validTasks)
                                      THEN <<validTasks[targetIndex + 1]>>
                                      ELSE <<>>
                          calc == calculateNewOrdinal(previousTask, nextTask,
                                                      defaultStep)
                          updatedMoved == UpdatedMoved(movedTask, targetStatus,
                                                       targetMilestone, calc.ordinal)
                          tasksInOrder == TasksInOrder(validTasks, targetIndex,
                                                       updatedMoved)
                          updatesMap ==
                              UpdatesMap(ResolutionUpdates(tasksInOrder, defaultStep,
                                                           calc.requiresRebalance),
                                         updatedMoved)
                          changedTasks == ChangedTasks(updatesMap, validTasks)
                      IN  IF movedTask.branch # None
                          THEN ThrowsLoaded("Task exists in another branch",
                                            validTasks, DroppedIds(orderedTaskIds))
                          ELSE \E failAt \in 0..Len(changedTasks) :
                               LET written == SavedBeforeFailure(changedTasks, failAt)
                               IN  /\ roPc' = IF failAt = 0 THEN "returned"
                                              ELSE "thrown"
                                   /\ roError' = IF failAt = 0 THEN ""
                                                 ELSE "saveTask failed"
                                   /\ roOriginal' = validTasks
                                   /\ roDropped' = DroppedIds(orderedTaskIds)
                                   /\ roRebalance' = calc.requiresRebalance
                                   /\ roChanged' = changedTasks
                                   /\ roUpdated' = IF failAt = 0
                                                   THEN <<MapGet(updatesMap, taskId)>>
                                                   ELSE <<>>
                                   /\ board' = SaveAll(board, written)
                                   /\ saved' = [i \in 1..Len(written) |->
                                                   written[i].id]
    /\ UNCHANGED notReorderVars

NextReorder ==
    \/ ReorderTask

SpecReorder == InitReorder /\ [][NextReorder]_vars

(***************************************************************************)
(* Sequence computer (sequences.ts) with Core.listActiveSequences and      *)
(* Core.moveTaskInSequences (lines 1181-1220)                              *)
(***************************************************************************)
MaxDeps == 2
MaxSequenceIndex == 3

SeqStatuses == {"To Do", "Done"}

\* (t.status || "").toLowerCase()
ToLowerCase(status) ==
    IF status = "Done" THEN "done"
    ELSE IF status = "To Do" THEN "to do"
    ELSE status

FileTask(id, status, dependencies) ==
    [id |-> id, status |-> status, dependencies |-> dependencies]

\* task.dependencies: ids of task files, the task's own id included
DependencySets ==
    {d \in SUBSET SeqToSet(BoardIds) : Cardinality(d) <= MaxDeps}

FileSets ==
    {[k \in 1..Len(BoardIds) |-> FileTask(BoardIds[k], st[k], dp[k])] :
        st \in [1..Len(BoardIds) -> SeqStatuses],
        dp \in [1..Len(BoardIds) -> DependencySets]}

\* all.filter((t) => (t.status || "").toLowerCase() !== "done")
ActiveTasks(all) ==
    SelectSeq(all, LAMBDA t : ToLowerCase(t.status) # "done")

\* iterative layering: the tasks whose dependencies inside the active set
\* are all placed form the next sequence, in input order; what is left when
\* no task is ready is unsequenced
RECURSIVE LayerWaves(_, _, _, _)
LayerWaves(remaining, placed, activeIds, sequences) ==
    LET ready == SelectSeq(remaining,
                           LAMBDA t : (t.dependencies \cap activeIds)
                                          \subseteq placed)
        readyIds == {ready[i].id : i \in 1..Len(ready)}
    IN  IF ready = <<>>
        THEN [unsequenced |-> remaining, sequences |-> sequences]
        ELSE LayerWaves(SelectSeq(remaining, LAMBDA t : t.id \notin readyIds),
                        placed \cup readyIds, activeIds,
                        Append(sequences, [index |-> Len(sequences) + 1,
                                           tasks |-> ready]))

\* a sequence computer that puts every active task into one wave
computeSequencesSingleWave(active) ==
    [unsequenced |-> <<>>,
     sequences |-> IF active = <<>> THEN <<>>
                   ELSE <<[index |-> 1, tasks |-> active]>>]
\* a sequence computer that appends the tasks it could not place as a last wave
computeSequencesLeftoverWave(active) ==
    LET r == LayerWaves(active, {}, {active[i].id : i \in 1..Len(active)}, <<>>)
    IN  [unsequenced |-> <<>>,
         sequences |-> IF r.unsequenced = <<>> THEN r.sequences
                       ELSE Append(r.sequences,
                                   [index |-> Len(r.sequences) + 1,
                                    tasks |-> r.unsequenced])]
\* computeSequences(activeTasks) -> {unsequenced, sequences}
computeSequences(active) ==
    LayerWaves(active, {}, {active[i].id : i \in 1..Len(active)}, <<>>)

\* planMoveToSequence(allTasks, sequences, taskId, targetSequenceIndex): the
\* moved task depends on exactly the tasks of the sequence before the target
\* (on nothing for the first sequence); only a changed record is returned
planMoveToSequence(allTasks, sequences, taskId, targetSequenceIndex) ==
    LET moved == allTasks[IndexOf(allTasks, taskId)]
        prior == IF (targetSequenceIndex - 1) \in 1..Len(sequences)
                 THEN sequences[targetSequenceIndex - 1].tasks
                 ELSE <<>>
        deps == {prior[i].id : i \in 1..Len(prior)} \ {taskId}
    IN  IF moved.dependencies = deps THEN <<>>
        ELSE <<[moved EXCEPT !.dependencies = deps]>>

\* planMoveToUnsequenced(allTasks, taskId): the moved task loses its
\* dependencies; sequences.ts decides whether the move is accepted
planMoveToUnsequenced(allTasks, taskId, accepted) ==
    LET moved == allTasks[IndexOf(allTasks, taskId)]
    IN  [ok |-> accepted,
         error |-> IF accepted THEN "" ELSE "Cannot move to Unsequenced",
         changed |-> IF moved.dependencies = {} THEN <<>>
                     ELSE <<[moved EXCEPT !.dependencies = {}]>>]

SeqRequestIds == SeqToSet(BoardIds) \cup {UnknownId, ""}

\* params.targetSequenceIndex: undefined (empty) or a number
SequenceIndexes == {<<>>} \cup {<<n>> : n \in (-1)..MaxSequenceIndex}

InitSeq ==
    /\ HandlersIdle
    /\ LoadIdle
    /\ StoreIdle
    /\ ReorderIdle
    /\ IdIdle
    /\ RemoteIdle
    /\ files \in FileSets
    /\ seqPc = "ready"
    /\ seqRequest = <<>>
    /\ seqError = ""
    /\ seqResult = <<>>
    /\ seqSaved = <<>>

\* lines 1181-1185
ListActiveSequences ==
    /\ seqPc = "ready"
    /\ seqPc' = "listed"
    /\ seqResult' = <<computeSequences(ActiveTasks(files))>>
    /\ UNCHANGED <<files, seqRequest, seqError, seqSaved, notSeqVars>>

SeqThrows(message) ==
    /\ seqPc' = "thrown"
    /\ seqError' = message
    /\ UNCHANGED <<files, seqResult, seqSaved>>

\* updateTasksBulk(changed), then lines 1217-1219: the sequences of the files
\* as they are after the write
SeqBulkUpdate(changed) ==
    \E failAt \in 0..Len(changed) :
        LET written == SavedBeforeFailure(changed, failAt)
            afterAll == SaveAll(files, written)
        IN  /\ files' = afterAll
            /\ seqSaved' = [i \in 1..Len(written) |-> written[i].id]
            /\ IF failAt = 0
               THEN /\ seqPc' = "returned"
                    /\ seqError' = ""
                    /\ seqResult' = <<computeSequences(ActiveTasks(afterAll))>>
               ELSE /\ seqPc' = "thrown"
                    /\ seqError' = "saveTask failed"
                    /\ seqResult' = seqResult

\* lines 1187-1220
MoveTaskInSequences ==
    /\ seqPc = "ready"
    /\ \E taskId \in SeqRequestIds,
          unsequenced \in BOOLEAN,
          targetSequenceIndex \in SequenceIndexes,
          accepted \in BOOLEAN :
         /\ seqRequest' = <<[taskId |-> taskId, unsequenced |-> unsequenced,
                             targetSequenceIndex |-> targetSequenceIndex]>>
         /\ IF taskId = ""
            THEN SeqThrows("taskId is required")
            ELSE IF ~\E i \in 1..Len(files) : files[i].id = taskId
            THEN SeqThrows("Task not found")
            ELSE LET active == ActiveTasks(files)
                     sequences == computeSequences(active).sequences
                 IN  IF unsequenced
                     THEN LET res == planMoveToUnsequenced(files, taskId,
                                                           accepted)
                          IN  IF ~res.ok THEN SeqThrows(res.error)
                              ELSE SeqBulkUpdate(res.changed)
                     ELSE IF targetSequenceIndex = <<>>
                     THEN SeqThrows("targetSequenceIndex must be a number")
                     ELSE IF targetSequenceIndex[1] < 1
                     THEN SeqThrows("targetSequenceIndex must be >= 1")
                     ELSE SeqBulkUpdate(
                              planMoveToSequence(files, sequences, taskId,
                                                 targetSequenceIndex[1]))
    /\ UNCHANGED notSeqVars

NextSeq ==
    \/ ListActiveSequences
    \/ MoveTaskInSequences

SpecSeq == InitSeq /\ [][NextSeq]_vars

(***************************************************************************)
(* One ordering or sequencing request on a Core: a reorderTask call on a   *)
(* board of tasks, or a moveTaskInSequences call on a set of task files    *)
(***************************************************************************)
\* task files that are all active, each with at most one dependency
OrderingFileSets ==
    {f \in FileSets :
        \A k \in 1..Len(f) :
            f[k].status = "To Do" /\ Cardinality(f[k].dependencies) <= 1}

InitOrdering ==
    /\ HandlersIdle
    /\ LoadIdle
    /\ StoreIdle
    /\ \/ board \in Boards /\ files = <<>>
       \/ board = <<>> /\ files \in OrderingFileSets
    /\ ReorderReady
    /\ IdIdle
    /\ RemoteIdle
    /\ seqPc = "ready"
    /\ seqRequest = <<>>
    /\ seqError = ""
    /\ seqResult = <<>>
    /\ seqSaved = <<>>

NextOrdering ==
    \/ seqPc = "ready" /\ ReorderTask
    \/ roPc = "ready" /\ MoveTaskInSequences

SpecOrdering == InitOrdering /\ [][NextOrdering]_vars

(***************************************************************************)
(* Core.generateNextId (lines 400-472) with the operations that create     *)
(* and move task files, and the ContentStore snapshot it reads             *)
(***************************************************************************)
MaxTaskNumber == 3
MaxCreates == 2

TaskNumbers == 1..MaxTaskNumber

\* where a task file can be when the Core starts
Places == {"nowhere", "tasks", "drafts", "archive", "completed"}

FilesAt(placement, place) == {n \in DOMAIN placement : placement[n] = place}

\* the ids loadTasks returns for the local task files (lines 1809-1816): a
\* local task whose freshest state entry is not of type task is left out
LoadedIds(dir, hidden) == dir \ hidden

\* store.getTasks() after getContentStore(): a store without a snapshot is
\* hydrated with the loader, a hydrated one hands out its snapshot
StoreTasks(snapshot, dir, hidden) ==
    IF snapshot = <<>> THEN LoadedIds(dir, hidden) ELSE snapshot[1]

\* lines 455-463: one more than the highest number of /^task-(\d+)/
RECURSIVE MaxOf(_)
MaxOf(S) ==
    IF S = {} THEN 0
    ELSE LET n == CHOOSE x \in S : TRUE
             m == MaxOf(S \ {n})
         IN  IF n > m THEN n ELSE m

generateNextId(storeIds, drafts, archived, completed) ==
    MaxOf(storeIds \cup drafts \cup archived \cup completed) + 1

InitIds ==
    /\ HandlersIdle
    /\ LoadIdle
    /\ StoreIdle
    /\ ReorderIdle
    /\ files = <<>>
    /\ seqPc = "ready"
    /\ seqRequest = <<>>
    /\ seqError = ""
    /\ seqResult = <<>>
    /\ seqSaved = <<>>
    /\ RemoteIdle
    /\ \E placement \in [1..(MaxTaskNumber - 1) -> Places] :
         /\ tasksDir = FilesAt(placement, "tasks")
         /\ draftsDir = FilesAt(placement, "drafts")
         /\ archiveDir = FilesAt(placement, "archive")
         /\ completedDir = FilesAt(placement, "completed")
    /\ hiddenIds \in SUBSET (1..(MaxTaskNumber - 1))
    /\ enableWatchers \in BOOLEAN
    /\ cache = <<>>
    /\ pendingChange = FALSE
    /\ lastIssued = <<>>
    /\ creations = 0

\* a write to the task directory: with watchers on, a notification is due
FileChanged == pendingChange' = enableWatchers

\* createTaskFromInput / createTaskFromData (lines 475-599): generateNextId,
\* then fs.saveTask or, for status Draft, fs.saveDraft
CreateTask(asDraft) ==
    /\ creations < MaxCreates
    /\ LET storeIds == StoreTasks(cache, tasksDir, hiddenIds)
           n == generateNextId(storeIds, draftsDir, archiveDir, completedDir)
       IN  /\ n <= MaxTaskNumber
           /\ cache' = <<storeIds>>
           /\ lastIssued' = <<n>>
           /\ IF asDraft
              THEN draftsDir' = draftsDir \cup {n} /\ tasksDir' = tasksDir
              ELSE tasksDir' = tasksDir \cup {n} /\ draftsDir' = draftsDir
    /\ creations' = creations + 1
    /\ FileChanged
    /\ UNCHANGED <<archiveDir, completedDir, hiddenIds, enableWatchers,
                   notIdVars>>

\* lines 1222-1241
ArchiveTask(n) ==
    /\ n \in tasksDir
    /\ tasksDir' = tasksDir \ {n}
    /\ archiveDir' = archiveDir \cup {n}
    /\ FileChanged
    /\ UNCHANGED <<draftsDir, completedDir, hiddenIds, enableWatchers, cache,
                   lastIssued, creations, notIdVars>>

\* lines 1243-1263
CompleteTask(n) ==
    /\ n \in tasksDir
    /\ tasksDir' = tasksDir \ {n}
    /\ completedDir' = completedDir \cup {n}
    /\ FileChanged
    /\ UNCHANGED <<draftsDir, archiveDir, hiddenIds, enableWatchers, cache,
                   lastIssued, creations, notIdVars>>

\* lines 1294-1304
PromoteDraft(n) ==
    /\ n \in draftsDir
    /\ draftsDir' = draftsDir \ {n}
    /\ tasksDir' = tasksDir \cup {n}
    /\ FileChanged
    /\ UNCHANGED <<archiveDir, completedDir, hiddenIds, enableWatchers, cache,
                   lastIssued, creations, notIdVars>>

\* lines 1306-1316
DemoteTask(n) ==
    /\ n \in tasksDir
    /\ tasksDir' = tasksDir \ {n}
    /\ draftsDir' = draftsDir \cup {n}
    /\ FileChanged
    /\ UNCHANGED <<archiveDir, completedDir, hiddenIds, enableWatchers, cache,
                   lastIssued, creations, notIdVars>>

\* the file-change notification reaches the store, which rebuilds its
\* snapshot with the loader
WatcherRefresh ==
    /\ pendingChange
    /\ cache # <<>>
    /\ cache' = <<LoadedIds(tasksDir, hiddenIds)>>
    /\ pendingChange' = FALSE
    /\ UNCHANGED <<tasksDir, draftsDir, archiveDir, completedDir, hiddenIds,
                   enableWatchers, lastIssued, creations, notIdVars>>

\* lines 340-345: the next getContentStore builds a new store
DisposeStoreSnapshot ==
    /\ cache # <<>>
    /\ cache' = <<>>
    /\ pendingChange' = FALSE
    /\ UNCHANGED <<tasksDir, draftsDir, archiveDir, completedDir, hiddenIds,
                   enableWatchers, lastIssued, creations, notIdVars>>

NextIds ==
    \/ \E asDraft \in BOOLEAN : CreateTask(asDraft)
    \/ \E n \in TaskNumbers : ArchiveTask(n)
    \/ \E n \in TaskNumbers : CompleteTask(n)
    \/ \E n \in TaskNumbers : PromoteDraft(n)
    \/ \E n \in TaskNumbers : DemoteTask(n)
    \/ WatcherRefresh
    \/ DisposeStoreSnapshot

SpecIds == InitIds /\ [][NextIds]_vars

(***************************************************************************)
(* Remote access: generateNextDocId / generateNextDecisionId (cli.ts,      *)
(* lines 971-1105) and Core.loadTaskById (lines 281-306)                   *)
(***************************************************************************)
MaxDocNumber == 2

RemoteSettings == {"true", "false", "undefined"}

\* a switch that never turns remote access off
RemoteNeverDisabled(setting) == FALSE
\* config?.remoteOperations === false
RemoteDisabled(setting) == setting = "false"

InitRemote ==
    /\ HandlersIdle
    /\ LoadIdle
    /\ StoreIdle
    /\ ReorderIdle
    /\ files = <<>>
    /\ seqPc = "ready"
    /\ seqRequest = <<>>
    /\ seqError = ""
    /\ seqResult = <<>>
    /\ seqSaved = <<>>
    /\ IdIdle
    /\ rmPc = "ready"
    /\ remoteOperations \in RemoteSettings
    /\ localIds \in SUBSET (1..MaxDocNumber)
    /\ branchIds \in SUBSET (1..(MaxDocNumber + 1))
    /\ fetchFails \in BOOLEAN
    /\ taskAt \in [local : BOOLEAN, localBranch : BOOLEAN, remote : BOOLEAN]
    /\ gitCalls = <<>>
    /\ nextNumber = 0
    /\ loadedFrom = "null"

\* the try block of lines 977-1005 (1045-1073): fetch unless remote
\* operations are off, then the ids in the trees of all branches; an error
\* of fetch is caught and leaves the branch ids out
GenerateNumberedId ==
    LET fetches == ~RemoteDisabled(remoteOperations)
        thrown == fetches /\ fetchFails
        calls == (IF fetches THEN <<"fetch">> ELSE <<>>)
                    \o (IF thrown THEN <<>> ELSE <<"listAllBranches">>)
        allIds == (IF thrown THEN {} ELSE branchIds) \cup localIds
    IN  /\ gitCalls' = calls
        /\ nextNumber' = MaxOf(allIds) + 1
        /\ rmPc' = "generated"
        /\ UNCHANGED <<remoteOperations, localIds, branchIds, fetchFails, taskAt,
                       loadedFrom, notRemoteVars>>

\* cli.ts lines 971-1037
GenerateNextDocId ==
    /\ rmPc = "ready"
    /\ GenerateNumberedId

\* cli.ts lines 1039-1105
GenerateNextDecisionId ==
    /\ rmPc = "ready"
    /\ GenerateNumberedId

\* lines 281-306
LoadTaskById ==
    /\ rmPc = "ready"
    /\ rmPc' = "loaded"
    /\ IF taskAt.local
       THEN /\ loadedFrom' = "local"
            /\ gitCalls' = <<>>
       ELSE IF taskAt.localBranch
       THEN /\ loadedFrom' = "local-branch"
            /\ gitCalls' = <<"findTaskInLocalBranches">>
       ELSE IF RemoteDisabled(remoteOperations)
       THEN /\ loadedFrom' = "null"
            /\ gitCalls' = <<"findTaskInLocalBranches">>
       ELSE /\ loadedFrom' = IF taskAt.remote THEN "remote" ELSE "null"
            /\ gitCalls' = <<"findTaskInLocalBranches",
                             "findTaskInRemoteBranches">>
    /\ UNCHANGED <<remoteOperations, localIds, branchIds, fetchFails, taskAt,
                   nextNumber, notRemoteVars>>

NextRemote ==
    \/ GenerateNextDocId
    \/ GenerateNextDecisionId
    \/ LoadTaskById

SpecRemote == InitRemote /\ [][NextRemote]_vars

(***************************************************************************)
(* Properties of loadTasks and of the merge                                *)
(***************************************************************************)
IdsOf(tasks) == {tasks[i].id : i \in 1..Len(tasks)}
CountId(tasks, id) == Cardinality({i \in 1..Len(tasks) : tasks[i].id = id})

InputIds == IdsOf(localTasks) \cup IdsOf(localBranchTasks) \cup IdsOf(remoteTasks)

\* ids the state-snapshot filter lets through (all of them when cross-branch
\* checking is off)
SurvivingIds ==
    LET latest == buildLatestStateMap(branchStateEntries, localTasks)
    IN  {i \in InputIds :
            \/ config.checkActiveBranches = FALSE
            \/ ~MapHas(latest, i)
            \/ MapGet(latest, i).type = "task"}

\* C1: the list loadTasks returns holds no id twice, and holds every input id
\* that passes the state-snapshot filter exactly once (and no other id).
C1_OneTaskPerId ==
    ltPc = "returned" =>
        /\ \A i \in IdsOf(ltResult) : CountId(ltResult, i) = 1
        /\ IdsOf(ltResult) = SurvivingIds

C1_Witness ==
    /\ ltPc = "returned"
    /\ Len(localTasks) = 2
    /\ Len(localBranchTasks) = 1
    /\ Len(remoteTasks) = 1
    /\ localBranchTasks[1].id = remoteTasks[1].id
    /\ Len(ltResult) = 2

\* the deciding key of a copy: (status index, timestamp) under most_progressed
KeyLess(a, b, statuses, strategy) ==
    LET ai == StatusIndex(statuses, a.status)
        bi == StatusIndex(statuses, b.status)
    IN  IF strategy = "most_recent"
        THEN TaskDate(a) < TaskDate(b)
        ELSE ai < bi \/ (ai = bi /\ TaskDate(a) < TaskDate(b))

KeyEqual(a, b, statuses, strategy) ==
    ~KeyLess(a, b, statuses, strategy) /\ ~KeyLess(b, a, statuses, strategy)

\* C2: under most_progressed the merged copy of an id is an input copy whose
\* status index is highest among the copies of that id, whatever the
\* timestamps; among copies of that highest index it has the latest timestamp.
C2_ProgressBeatsRecency ==
    (ltPc = "merged" /\ ResolutionStrategy(config) = "most_progressed") =>
        \A k \in 1..Len(ltResult) :
            LET w == ltResult[k]
                wi == StatusIndex(ConfigStatuses(config), w.status)
            IN  /\ w \in InputCopies
                /\ \A c \in InputCopies :
                      c.id = w.id =>
                        LET ci == StatusIndex(ConfigStatuses(config), c.status)
                        IN  ci < wi \/ (ci = wi /\ TaskDate(c) <= TaskDate(w))

\* local "To Do" with the later timestamp, remote "In Progress" with the
\* earlier one: the merged copy is the remote one
C2_Witness ==
    /\ ltPc = "merged"
    /\ ResolutionStrategy(config) = "most_progressed"
    /\ ConfigStatuses(config) = DEFAULT_STATUSES
    /\ localBranchTasks = <<>>
    /\ Len(localTasks) = 1 /\ Len(remoteTasks) = 1
    /\ localTasks[1].status = "To Do"
    /\ remoteTasks[1].status = "In Progress"
    /\ localTasks[1].lastModified > remoteTasks[1].lastModified
    /\ ltResult = remoteTasks

RECURSIVE ClaimedFoldLocal(_, _)
ClaimedFoldLocal(latest, entries) ==
    IF entries = <<>> THEN latest
    ELSE ClaimedFoldLocal(
            IF ~MapHas(latest, Head(entries).id)
               \/ Head(entries).lastModified
                     >= MapGet(latest, Head(entries).id).lastModified
            THEN MapSet(latest, Head(entries).id, Head(entries))
            ELSE latest,
            Tail(entries))

ClaimedLatestState ==
    ClaimedFoldLocal(FoldEntries(<<>>, branchStateEntries),
                     [i \in 1..Len(localTasks) |-> LocalEntry(localTasks[i])])

\* C6: with cross-branch checking on, the returned ids are the merged ids
\* less those whose freshest state entry (local entry kept on a timestamp
\* tie) has a type other than task.
C6_LocalEntryWinsTies ==
    (ltPc = "returned" /\ config.checkActiveBranches) =>
        IdsOf(ltResult) =
            {i \in InputIds :
                \/ ~MapHas(ClaimedLatestState, i)
                \/ MapGet(ClaimedLatestState, i).type = "task"}

\* C7 as stated: a signal aborted at any point before loadTasks returns makes
\* the call throw, so it never returns with the signal aborted.
C7_AbortAlwaysThrows ==
    ltPc = "returned" => ~aborted

\* C7 amended: once the signal is aborted while loadTasks is not yet past its
\* last cancellation check, the call ends cancelled and returns no list; a
\* call that returned with the signal aborted had cross-branch checking on
\* (the abort came from the progress callback of line 1814); and no step of
\* loadTasks changes the cached snapshot.
C7_AbortBeforeLastCheckThrows ==
    [][/\ (aborted /\ ltPc # "returned") =>
            (ltPc' \in {"await_config", "cancelled"} /\ ltResult' = <<>>)
       /\ (ltPc' = "returned" /\ aborted') => config.checkActiveBranches # FALSE
       /\ storeTasks' = storeTasks]_vars

C7_Witness ==
    ltPc = "cancelled" /\ aborted /\ storeTasks = CachedSnapshot

(***************************************************************************)
(* Properties of the Content Store of a Core                               *)
(***************************************************************************)
StoreIds == 1..Len(stores)

\* C8: each store has at most one hydration in flight and starts a merge only
\* when first initialized or on an invalidation; every store that has not been
\* disposed is the Core's current one, so at most one hydration is in flight
\* for it and all callers awaiting such a store await that same store.
C8_SingleHydrationInFlight ==
    /\ \A s \in StoreIds :
          /\ stores[s].inFlight <= 1
          /\ stores[s].started <= 1 + stores[s].invalidated
          /\ ~stores[s].disposed => s = contentStore
    /\ Cardinality({s \in StoreIds :
                        stores[s].inFlight > 0 /\ ~stores[s].disposed}) <= 1
    /\ \A c \in DOMAIN callerPc :
          (callerPc[c] = "awaiting" /\ ~stores[callerStore[c]].disposed) =>
              callerStore[c] = contentStore

C8_Witness ==
    /\ contentStore # 0
    /\ stores[contentStore].state = "Hydrating"
    /\ stores[contentStore].started = 1
    /\ \A c \in DOMAIN callerPc :
          callerPc[c] = "awaiting" /\ callerStore[c] = contentStore
    /\ Cardinality(DOMAIN callerPc) >= 3

(***************************************************************************)
(* Properties of reorderTask                                               *)
(***************************************************************************)
StoredOrdinal(id) == board[IndexOf(board, id)].ordinal

\* C9: after a successful reorderTask the stored ordinals of the tasks loaded
\* from orderedTaskIds are defined and strictly increasing in request order.
C9_OrdinalsStrictlyIncreasing ==
    roPc = "returned" =>
        /\ \A i \in 1..Len(roOriginal) :
              StoredOrdinal(roOriginal[i].id) # Undefined
        /\ \A i, j \in 1..Len(roOriginal) :
              i < j => StoredOrdinal(roOriginal[i].id)
                         < StoredOrdinal(roOriginal[j].id)

\* three loaded tasks, two of them sharing an ordinal and one without any
C9_Witness ==
    /\ roPc = "returned"
    /\ Len(roOriginal) = 3
    /\ \E i, j, k \in 1..3 :
         /\ i # j /\ j # k /\ i # k
         /\ roOriginal[i].ordinal = roOriginal[j].ordinal
         /\ roOriginal[i].ordinal # Undefined
         /\ roOriginal[k].ordinal = Undefined
    /\ Len(roChanged) >= 2

\* C10: when the resolution ran with forceSequential, the i-th loaded task
\* (0-based) is stored with ordinal startOrdinal + i * defaultStep, where
\* reorderTask passes startOrdinal = defaultStep; request order is kept.
C10_ForcedSequentialOrdinals ==
    (roPc = "returned" /\ roRebalance) =>
        \A i \in 1..Len(roOriginal) :
            StoredOrdinal(roOriginal[i].id)
                = DEFAULT_ORDINAL_STEP + (i - 1) * DEFAULT_ORDINAL_STEP

\* two tasks sharing ordinal 1000 keep their relative order: 1000 and 3000
\* around the task moved between them
C10_Witness ==
    /\ roPc = "returned"
    /\ roRebalance
    /\ Len(roOriginal) = 3
    /\ roOriginal[1].ordinal = 1000
    /\ roOriginal[3].ordinal = 1000
    /\ StoredOrdinal(roOriginal[1].id) = 1000
    /\ StoredOrdinal(roOriginal[2].id) = 2000
    /\ StoredOrdinal(roOriginal[3].id) = 3000

(***************************************************************************)
(* Properties of the reorder write path                                    *)
(***************************************************************************)
SavedIds == SeqToSet(saved)

\* C12: a reorder is all-or-nothing: when the call has ended, either every
\* task of the computed change set was written or none was.
C12_AllOrNothing ==
    roPc # "ready" =>
        \/ saved = <<>>
        \/ saved = [i \in 1..Len(roChanged) |-> roChanged[i].id]

\* C13: no task that getTask yields with a branch (its authoritative copy
\* lives on another branch) is ever written by reorderTask, the moved task
\* or any other task of the change set.
C13_NoCrossBranchWrite ==
    \A i \in 1..Len(board) :
        board[i].branch # None => board[i].id \notin SavedIds

\* C14: a reorderTask call in which a requested id (taskId or an entry of
\* orderedTaskIds) does not exist ends with the not-found error.
C14_UnknownIdFailsLoudly ==
    roDropped # <<>> =>
        roPc = "thrown" /\ roError = "Task not found while reordering"

(***************************************************************************)
(* Properties of request validation                                        *)
(***************************************************************************)
RepeatsAnId(ids) == Cardinality(SeqToSet(ids)) < Len(ids)

\* a reorderTask step whose request misses the moved task or repeats an id
\* throws and writes nothing
ReorderRejectsMalformed ==
    (roPc = "ready" /\ roPc' # "ready") =>
        LET rq == roRequest'[1]
        IN  (rq.taskId \notin SeqToSet(rq.orderedTaskIds)
                \/ RepeatsAnId(rq.orderedTaskIds)) =>
                (roPc' = "thrown" /\ board' = board /\ saved' = <<>>)

BelowOne(index) == index # <<>> /\ index[1] < 1

\* C11 as stated: every moveTaskInSequences call with targetSequenceIndex
\* below 1 throws and leaves the task files as they were (and so does every
\* malformed reorderTask call).
C11_MalformedAlwaysRejected ==
    [][/\ ReorderRejectsMalformed
       /\ (seqPc = "ready" /\ seqPc' \notin {"ready", "listed"}) =>
            (BelowOne(seqRequest'[1].targetSequenceIndex) =>
                (seqPc' = "thrown" /\ files' = files /\ seqSaved' = <<>>))]_vars

\* C11 amended: a reorderTask call whose orderedTaskIds misses taskId or
\* repeats an id, and a moveTaskInSequences call that does not ask for
\* unsequenced and has targetSequenceIndex below 1, throw with every stored
\* task unchanged and nothing written (for an existing task the sequence
\* move throws the index error).
C11_MalformedRejectedBeforeWrite ==
    [][/\ ReorderRejectsMalformed
       /\ (seqPc = "ready" /\ seqPc' \notin {"ready", "listed"}) =>
            ((BelowOne(seqRequest'[1].targetSequenceIndex)
                    /\ ~seqRequest'[1].unsequenced) =>
                (/\ seqPc' = "thrown"
                 /\ (\E i \in 1..Len(files) :
                        files[i].id = seqRequest'[1].taskId) =>
                        seqError' = "targetSequenceIndex must be >= 1"
                 /\ files' = files
                 /\ seqSaved' = <<>>))]_vars

\* a move to sequence 0 of an existing task with dependencies was rejected
C11_Witness ==
    /\ seqPc = "thrown"
    /\ seqError = "targetSequenceIndex must be >= 1"
    /\ seqRequest[1].targetSequenceIndex = <<0>>
    /\ \E i \in 1..Len(files) :
          files[i].id = seqRequest[1].taskId /\ files[i].dependencies # {}

(***************************************************************************)
(* Properties of the sequence computer                                     *)
(***************************************************************************)
ActiveIds == {files[i].id : i \in {j \in 1..Len(files) :
                                        ToLowerCase(files[j].status) # "done"}}
FileOf(id) == files[CHOOSE i \in 1..Len(files) : files[i].id = id]
ActiveDependencies(id) == FileOf(id).dependencies \cap ActiveIds

\* the index of the sequence that holds id, 0 when no sequence does
WaveOf(id) ==
    LET sequences == seqResult[1].sequences
        holding == {k \in 1..Len(sequences) :
                       \E i \in 1..Len(sequences[k].tasks) :
                           sequences[k].tasks[i].id = id}
    IN  IF holding = {} THEN 0 ELSE sequences[CHOOSE k \in holding : TRUE].index

UnsequencedIds ==
    {seqResult[1].unsequenced[i].id : i \in 1..Len(seqResult[1].unsequenced)}

\* C15: every task placed in a sequence has each of its dependencies inside
\* the active set placed in a sequence of strictly smaller index, and an
\* active task with no dependency inside the active set (all of them Done)
\* is in sequence 1; sequence indexes are 1, 2, ... in order.
C15_WavesRespectDependencies ==
    seqResult # <<>> =>
        /\ \A k \in 1..Len(seqResult[1].sequences) :
              seqResult[1].sequences[k].index = k
        /\ \A id \in ActiveIds :
              /\ WaveOf(id) > 0 =>
                    \A d \in ActiveDependencies(id) :
                        WaveOf(d) > 0 /\ WaveOf(d) < WaveOf(id)
              /\ ActiveDependencies(id) = {} => WaveOf(id) = 1

\* task-1 is Done; task-2 depends on it alone and is in sequence 1; task-3
\* depends on both and is in sequence 2
C15_Witness ==
    /\ seqPc = "listed"
    /\ ActiveIds = {"task-2", "task-3"}
    /\ FileOf("task-2").dependencies = {"task-1"}
    /\ FileOf("task-3").dependencies = {"task-1", "task-2"}
    /\ WaveOf("task-2") = 1
    /\ WaveOf("task-3") = 2
    /\ UnsequencedIds = {}

RECURSIVE DependsWithin(_, _, _)
\* a reaches b through at most n dependency edges inside the active set
DependsWithin(a, b, n) ==
    /\ n > 0
    /\ \/ b \in ActiveDependencies(a)
       \/ \E c \in ActiveDependencies(a) : DependsWithin(c, b, n - 1)

InCycle(id) ==
    \E other \in ActiveIds \ {id} :
        /\ DependsWithin(id, other, Len(files))
        /\ DependsWithin(other, id, Len(files))

\* C16: every member of a dependency cycle of two or more active tasks is
\* in the unsequenced list and in no sequence.
C16_CycleMembersUnsequenced ==
    seqResult # <<>> =>
        \A id \in ActiveIds :
            InCycle(id) => (id \in UnsequencedIds /\ WaveOf(id) = 0)

\* task-1 and task-2 depend on each other, task-3 on nothing
C16_Witness ==
    /\ seqPc = "listed"
    /\ ActiveIds = SeqToSet(BoardIds)
    /\ FileOf("task-1").dependencies = {"task-2"}
    /\ FileOf("task-2").dependencies = {"task-1"}
    /\ FileOf("task-3").dependencies = {}
    /\ UnsequencedIds = {"task-1", "task-2"}
    /\ WaveOf("task-3") = 1

Listed(statuses, status) == \E i \in 1..Len(statuses) : statuses[i] = status

\* C18: under most_progressed a copy whose status is not in the configured
\* list never wins against a copy whose status is in the list, in the
\* resolver (either argument order) and in the merge.
C18_UnknownStatusLeastProgressed ==
    ResolutionStrategy(config) = "most_progressed" =>
        /\ ltPc = "resolved" =>
              \A k \in 1..2 :
                  (\E j \in 1..2 : Listed(ConfigStatuses(config),
                                          resolveArgs[j].status))
                      => Listed(ConfigStatuses(config), resolveOut[k].status)
        /\ ltPc = "merged" =>
              \A k \in 1..Len(ltResult) :
                  (\E c \in InputCopies :
                        c.id = ltResult[k].id
                            /\ Listed(ConfigStatuses(config), c.status))
                      => Listed(ConfigStatuses(config), ltResult[k].status)

\* an unlisted "Blocked" copy with the later timestamp loses to a listed
\* "To Do" copy, whichever is the incumbent
C18_Witness ==
    /\ ltPc = "resolved"
    /\ ResolutionStrategy(config) = "most_progressed"
    /\ resolveArgs[1].status = "Blocked"
    /\ resolveArgs[2].status = "To Do"
    /\ resolveArgs[1].lastModified > resolveArgs[2].lastModified
    /\ resolveOut = <<resolveArgs[2], resolveArgs[2]>>

(***************************************************************************)
(* Properties of id generation and of the remote switch                    *)
(***************************************************************************)
ExistingNumbers == tasksDir \cup draftsDir \cup archiveDir \cup completedDir

\* C19: every createTask step issues a number strictly greater than the
\* number of every task file that exists at that moment among the active
\* tasks, the drafts, the archived and the completed tasks.
C19_IssuedIdIsFresh ==
    [][creations' = creations + 1 =>
            \A n \in ExistingNumbers : lastIssued'[1] > n]_vars

CallsMade == SeqToSet(gitCalls)

\* C20: with remoteOperations false no id generator calls fetch, and
\* loadTaskById never calls the remote-branch lookup and returns null for a
\* task found neither locally nor on another local branch.
C20_NoRemoteAccessWhenDisabled ==
    remoteOperations = "false" =>
        /\ "fetch" \notin CallsMade
        /\ "findTaskInRemoteBranches" \notin CallsMade
        /\ (rmPc = "loaded" /\ ~taskAt.local /\ ~taskAt.localBranch) =>
              loadedFrom = "null"

\* the task exists on a remote branch only; loadTaskById returns null
C20_Witness ==
    /\ remoteOperations = "false"
    /\ rmPc = "loaded"
    /\ taskAt = [local |-> FALSE, localBranch |-> FALSE, remote |-> TRUE]
    /\ gitCalls = <<"findTaskInLocalBranches">>
    /\ loadedFrom = "null"

(***************************************************************************)
(* Core.createTaskFromInput, Core.updateTaskFromInput (editTask),          *)
(* Core.updateTask and the acceptance-criteria operations on one task file *)
(***************************************************************************)
MaxEdits == 2
MaxCriteria == 3

EditedId == "task-1"
\* ids core.queryTasks() and core.fs.listDrafts() yield to validateDependencies
KnownTaskIds == <<"task-2">>
KnownDraftIds == <<"task-3">>

\* value.trim() on the texts of the model: " " is a blank text
Trim(text) == IF text = " " THEN "" ELSE text

\* status.toLowerCase() on the statuses of the model
StatusLowerCase(status) ==
    IF status = "Done" THEN "done"
    ELSE IF status = "To Do" THEN "to do"
    ELSE IF status = "In Progress" THEN "in progress"
    ELSE IF status = "Draft" THEN "draft"
    ELSE status

\* getCanonicalStatus: the configured status the input names, <<>> if none
getCanonicalStatus(status) ==
    LET wanted == StatusLowerCase(Trim(status))
        hits == {k \in 1..Len(DEFAULT_STATUSES) :
                    StatusLowerCase(DEFAULT_STATUSES[k]) = wanted}
    IN  IF hits = {} THEN <<>>
        ELSE <<DEFAULT_STATUSES[CHOOSE k \in hits : \A j \in hits : k <= j]>>

AllowedPriorities == {"high", "medium", "low"}

Criterion(index, text, checked) ==
    [index |-> index, text |-> text, checked |-> checked]

HistoryEntry(status, description) ==
    [status |-> status, description |-> description]

\* the fields of Task the handlers below read or write
EditTask(title, status, ordinal, dependencies, criteria, onStatusChange) ==
    [id |-> EditedId, title |-> title, status |-> status, priority |-> <<>>,
     ordinal |-> ordinal, dependencies |-> dependencies,
     acceptanceCriteriaItems |-> criteria, history |-> <<>>,
     updatedDate |-> <<>>, onStatusChange |-> onStatusChange]

\* a TaskUpdateInput with every field undefined
NoInput ==
    [title |-> <<>>, status |-> <<>>, priority |-> <<>>, ordinal |-> <<>>,
     dependencies |-> <<>>, addDependencies |-> <<>>,
     removeDependencies |-> <<>>, acceptanceCriteria |-> <<>>,
     addAcceptanceCriteria |-> <<>>, removeAcceptanceCriteria |-> <<>>,
     checkAcceptanceCriteria |-> <<>>, uncheckAcceptanceCriteria |-> <<>>,
     addToHistory |-> <<>>]

RECURSIVE Filter(_, _)
\* Array.prototype.filter with the kept positions given as a predicate set
Filter(s, keep) ==
    IF s = <<>> THEN <<>>
    ELSE IF Head(s) \in keep THEN <<Head(s)>> \o Filter(Tail(s), keep)
    ELSE Filter(Tail(s), keep)

\* result of validateDependencies: the known ids matched and the ids unmatched
validateDependencies(dependencies) ==
    LET knownIds == SeqToSet(KnownTaskIds) \cup SeqToSet(KnownDraftIds)
    IN  [valid |-> Filter(dependencies, knownIds),
         invalid |-> Filter(dependencies, SeqToSet(dependencies) \ knownIds)]

RECURSIVE AppendMissing(_, _)
\* lines 807-814: push every dep the list does not hold yet
AppendMissing(current, additions) ==
    IF additions = <<>> THEN current
    ELSE IF Head(additions) \in SeqToSet(current)
         THEN AppendMissing(current, Tail(additions))
         ELSE AppendMissing(Append(current, Head(additions)), Tail(additions))

\* state of an updateTaskFromInput call: the error thrown (if any), the
\* mutated flag and the task object being edited
EditState(task) == [err |-> <<>>, mutated |-> FALSE, task |-> task]
Fail(st, message) == [st EXCEPT !.err = <<message>>]
Mutate(st, task) == [st EXCEPT !.mutated = TRUE, !.task = task]

\* lines 682-691
ApplyTitle(st, input) ==
    IF st.err # <<>> \/ input.title = <<>> THEN st
    ELSE LET trimmed == Trim(input.title[1])
         IN  IF trimmed = "" THEN Fail(st, "Title cannot be empty.")
             ELSE IF st.task.title # trimmed
                  THEN Mutate(st, [st.task EXCEPT !.title = trimmed])
                  ELSE st

\* lines 697-704
ApplyStatus(st, input) ==
    IF st.err # <<>> \/ input.status = <<>> THEN st
    ELSE LET canonical == IF StatusLowerCase(Trim(input.status[1])) = "draft"
                          THEN <<"Draft">>
                          ELSE getCanonicalStatus(input.status[1])
         IN  IF canonical = <<>> THEN Fail(st, "Invalid status")
             ELSE IF st.task.status # canonical[1]
                  THEN Mutate(st, [st.task EXCEPT !.status = canonical[1]])
                  ELSE st

\* lines 706-712 and normalizePriority (lines 200-210)
ApplyPriority(st, input) ==
    IF st.err # <<>> \/ input.priority = <<>> THEN st
    ELSE IF input.priority[1] \notin AllowedPriorities \cup {""}
         THEN Fail(st, "Invalid priority")
         ELSE LET normalized == IF input.priority[1] = "" THEN <<>>
                                ELSE input.priority
              IN  IF st.task.priority # normalized
                  THEN Mutate(st, [st.task EXCEPT !.priority = normalized])
                  ELSE st

\* line 728: Number.isNaN(input.ordinal) || input.ordinal < 0
OrdinalRejected(ordinal) == ordinal < 0

\* lines 727-735
ApplyOrdinal(st, input) ==
    IF st.err # <<>> \/ input.ordinal = <<>> THEN st
    ELSE IF OrdinalRejected(input.ordinal[1])
         THEN Fail(st, "Ordinal must be a non-negative number.")
         ELSE IF st.task.ordinal # input.ordinal
              THEN Mutate(st, [st.task EXCEPT !.ordinal = input.ordinal])
              ELSE st

DependenciesNeverInvalid(checked) == FALSE
\* lines 788 and 802: invalid.length > 0
DependenciesInvalid(checked) == checked.invalid # <<>>

\* resolveDependencies, lines 782-829
ApplyDependencies(st, input) ==
    IF st.err # <<>> THEN st
    ELSE
    LET current == st.task.dependencies
        setCheck == validateDependencies(
                        IF input.dependencies = <<>> THEN <<>>
                        ELSE input.dependencies[1])
        setFails == input.dependencies # <<>> /\ DependenciesInvalid(setCheck)
        afterSet == IF input.dependencies # <<>> /\ setCheck.valid # current
                    THEN setCheck.valid ELSE current
        addCheck == validateDependencies(input.addDependencies)
        addFails == input.addDependencies # <<>>
                        /\ DependenciesInvalid(addCheck)
        afterAdd == AppendMissing(afterSet, addCheck.valid)
        afterRemove == Filter(afterAdd, SeqToSet(afterAdd)
                                          \ SeqToSet(input.removeDependencies))
    IN  IF setFails \/ addFails
        THEN Fail(st, "The following dependencies do not exist")
        ELSE [st EXCEPT !.mutated = st.mutated \/ afterSet # current
                                      \/ afterAdd # afterSet
                                      \/ afterRemove # afterAdd,
                        !.task = [st.task EXCEPT !.dependencies = afterRemove]]

\* positions of a list whose trimmed text is not blank
NonBlank(list) == {k \in 1..Len(list) : Trim(list[k].text) # ""}

RECURSIVE Pick(_, _, _)
\* the elements of a list at the positions kept, in list order
Pick(list, keep, k) ==
    IF k > Len(list) THEN <<>>
    ELSE IF k \in keep THEN <<list[k]>> \o Pick(list, keep, k + 1)
    ELSE Pick(list, keep, k + 1)

\* rebuildIndices (lines 898-903): index := position + 1
rebuildIndices(list) ==
    [k \in 1..Len(list) |-> [list[k] EXCEPT !.index = k]]

\* lines 906-916: trim, drop the blank texts, then number what is left
SanitizeCriteria(given) ==
    LET kept == Pick(given, NonBlank(given), 1)
    IN  [k \in 1..Len(kept) |->
            Criterion(k, Trim(kept[k].text), kept[k].checked)]

\* createTaskFromInput, lines 563-571: number every given criterion by its
\* position, then drop the ones whose text is blank
NumberThenFilter(given) ==
    LET numbered == [k \in 1..Len(given) |->
                        Criterion(k, Trim(given[k].text), given[k].checked)]
    IN  Pick(numbered, NonBlank(given), 1)

\* Math.max(...list.map(c => c.index)), 0 for the empty list
MaxIndex(list) ==
    IF list = <<>> THEN 0
    ELSE CHOOSE m \in {list[k].index : k \in 1..Len(list)} :
            \A k \in 1..Len(list) : list[k].index <= m

\* lines 921-931 and Core.addAcceptanceCriteria (lines 1331-1335)
AppendCriteria(list, texts) ==
    list \o [k \in 1..Len(texts) |->
                Criterion(MaxIndex(list) + k, texts[k], FALSE)]

Indices(list) == {list[k].index : k \in 1..Len(list)}

\* the criteria whose index is not among the removed ones
WithoutIndices(list, removed) ==
    Pick(list, {k \in 1..Len(list) : list[k].index \notin removed}, 1)

\* toggleCriteria (lines 948-966) on the indices found
SetChecked(list, indices, checked) ==
    [k \in 1..Len(list) |->
        IF list[k].index \in indices
        THEN [list[k] EXCEPT !.checked = checked] ELSE list[k]]

\* lines 894-971
ApplyCriteria(st, input) ==
    IF st.err # <<>> THEN st
    ELSE
    LET loaded == st.task.acceptanceCriteriaItems
        afterSet == IF input.acceptanceCriteria = <<>> THEN loaded
                    ELSE SanitizeCriteria(input.acceptanceCriteria[1])
        additions == Pick(input.addAcceptanceCriteria,
                          {k \in 1..Len(input.addAcceptanceCriteria) :
                              Trim(input.addAcceptanceCriteria[k]) # ""}, 1)
        afterAdd == AppendCriteria(afterSet, additions)
        removalSet == SeqToSet(input.removeAcceptanceCriteria)
        filtered == WithoutIndices(afterAdd, removalSet)
        removeFails == removalSet # {} /\ Len(filtered) = Len(afterAdd)
        afterRemove == IF removalSet = {} THEN afterAdd
                       ELSE rebuildIndices(filtered)
        toCheck == SeqToSet(input.checkAcceptanceCriteria)
        checkFails == toCheck \ Indices(afterRemove) # {}
        afterCheck == SetChecked(afterRemove, toCheck, TRUE)
        toUncheck == SeqToSet(input.uncheckAcceptanceCriteria)
        uncheckFails == toUncheck \ Indices(afterCheck) # {}
        afterUncheck == SetChecked(afterCheck, toUncheck, FALSE)
    IN  IF removeFails \/ checkFails \/ uncheckFails
        THEN Fail(st, "Acceptance criterion not found")
        ELSE [st EXCEPT
                !.mutated = \/ st.mutated
                            \/ input.acceptanceCriteria # <<>>
                            \/ additions # <<>>
                            \/ removalSet # {}
                            \/ afterCheck # afterRemove
                            \/ afterUncheck # afterCheck,
                !.task = [st.task EXCEPT
                            !.acceptanceCriteriaItems = afterUncheck]]

\* lines 985-991
ApplyHistory(st, input) ==
    IF st.err # <<>> \/ input.addToHistory = <<>> THEN st
    ELSE Mutate(st, [st.task EXCEPT
                        !.history = Append(@, input.addToHistory[1])])

\* the body of updateTaskFromInput between the load and line 993
ApplyInput(task, input) ==
    ApplyHistory(
      ApplyCriteria(
        ApplyDependencies(
          ApplyOrdinal(
            ApplyPriority(
              ApplyStatus(
                ApplyTitle(EditState(task), input), input), input), input),
          input), input), input)

\* FALLBACK_STATUS (constants/index.ts)
FALLBACK_STATUS == "To Do"

CriterionInputs == [text : {"a", " "}, checked : BOOLEAN]

\* the task files a field edit may start from
FieldTasks ==
    {EditTask("t", status, ordinal, dependencies, <<>>, onStatusChange) :
        status \in {"To Do", "Done"},
        ordinal \in {<<>>, <<1000>>},
        dependencies \in {<<>>, <<"task-2">>, <<UnknownId>>},
        onStatusChange \in {<<>>, <<"per-task">>}}

\* the task files an acceptance-criteria edit may start from
CriteriaTasks ==
    {EditTask("t", "To Do", <<>>, <<>>, criteria, <<>>) :
        criteria \in {<<>>, <<Criterion(1, "a", FALSE)>>,
                      <<Criterion(1, "a", FALSE), Criterion(2, "b", TRUE)>>}}

\* TaskCreateInput, in the fields it shares with TaskUpdateInput
CreateInput(title, status, dependencies, criteria) ==
    [NoInput EXCEPT !.title = <<title>>, !.status = status,
                    !.dependencies = <<dependencies>>,
                    !.acceptanceCriteria = <<criteria>>]

FieldCreateInputs ==
    {CreateInput(title, status, dependencies, <<>>) :
        title \in {"t", " "},
        status \in {<<>>, <<"done">>, <<"draft">>, <<"Bogus">>},
        dependencies \in {<<>>, <<"task-2">>, <<"task-2", UnknownId>>}}

CriteriaCreateInputs ==
    {CreateInput("t", <<>>, <<>>, criteria) :
        criteria \in SeqsUpTo([text : {"a", " "}, checked : {FALSE}], 2)}

IndexLists == {<<1>>, <<2>>, <<3>>, <<1, 2>>, <<1, 9>>}

\* TaskUpdateInput values for the fields other than the acceptance criteria:
\* one field each, and the combinations whose parts act on each other
FieldInputs ==
    {NoInput}
    \cup {[NoInput EXCEPT !.title = <<title>>] : title \in {"t", "t2", " "}}
    \cup {[NoInput EXCEPT !.status = <<status>>] :
            status \in {"To Do", "Done", "done", "draft", "Bogus"}}
    \cup {[NoInput EXCEPT !.priority = <<priority>>] :
            priority \in {"high", "urgent"}}
    \cup {[NoInput EXCEPT !.ordinal = <<ordinal>>] :
            ordinal \in {-1, 0, 1, 1000}}
    \cup {[NoInput EXCEPT !.dependencies = <<dependencies>>] :
            dependencies \in {<<>>, <<"task-2">>, <<"task-3">>, <<UnknownId>>,
                              <<"task-2", UnknownId>>}}
    \cup {[NoInput EXCEPT !.addDependencies = dependencies] :
            dependencies \in {<<"task-2">>, <<"task-3">>, <<UnknownId>>,
                              <<"task-3", UnknownId>>}}
    \cup {[NoInput EXCEPT !.removeDependencies = <<"task-2">>]}
    \cup {[NoInput EXCEPT !.dependencies = <<<<"task-2">>>>,
                          !.addDependencies = <<UnknownId>>],
          [NoInput EXCEPT !.status = <<"Done">>,
                          !.ordinal = <<-1>>],
          [NoInput EXCEPT !.status = <<"Done">>,
                          !.dependencies = <<<<UnknownId>>>>]}

\* TaskUpdateInput values for the acceptance criteria
CriteriaInputs ==
    {NoInput}
    \cup {[NoInput EXCEPT !.acceptanceCriteria = <<criteria>>] :
            criteria \in SeqsUpTo(CriterionInputs, 2)}
    \cup {[NoInput EXCEPT !.addAcceptanceCriteria = texts] :
            texts \in {<<"a">>, <<" ">>, <<"a", "b">>, <<" ", "b">>}}
    \cup {[NoInput EXCEPT !.removeAcceptanceCriteria = indices] :
            indices \in IndexLists}
    \cup {[NoInput EXCEPT !.checkAcceptanceCriteria = indices] :
            indices \in IndexLists}
    \cup {[NoInput EXCEPT !.uncheckAcceptanceCriteria = indices] :
            indices \in IndexLists}
    \cup {[NoInput EXCEPT !.addAcceptanceCriteria = <<"b">>,
                          !.removeAcceptanceCriteria = <<1>>],
          [NoInput EXCEPT !.removeAcceptanceCriteria = <<1>>,
                          !.checkAcceptanceCriteria = <<2>>],
          [NoInput EXCEPT !.title = <<" ">>,
                          !.addAcceptanceCriteria = <<"b">>]}

EditReady ==
    /\ CoreIdle
    /\ RaceIdle
    /\ SearchIdle
    /\ McpIdle
    /\ edPc = "ready"
    /\ edRequest = <<>>
    /\ edError = ""
    /\ clock = 0
    /\ callbacks = <<>>
    /\ edSaves = <<>>

InitEdit ==
    /\ EditReady
    /\ stored \in {<<>>} \cup {<<task>> : task \in FieldTasks}
    /\ globalCallback \in {<<>>, <<"global">>}

InitCriteria ==
    /\ EditReady
    /\ stored \in {<<>>} \cup {<<task>> : task \in CriteriaTasks}
    /\ globalCallback = <<>>

\* the call threw before anything was handed to the file system
EditThrows(op, input, message) ==
    /\ edPc' = "thrown"
    /\ edError' = message
    /\ edRequest' = <<[op |-> op, input |-> input]>>
    /\ clock' = clock + 1
    /\ callbacks' = <<>>
    /\ edSaves' = <<>>
    /\ UNCHANGED <<stored, globalCallback, notEditVars>>

\* the call returned without a write (line 994)
EditReturnsUnsaved(op, input) ==
    /\ edPc' = "returned"
    /\ edError' = ""
    /\ edRequest' = <<[op |-> op, input |-> input]>>
    /\ clock' = clock + 1
    /\ callbacks' = <<>>
    /\ edSaves' = <<>>
    /\ UNCHANGED <<stored, globalCallback, notEditVars>>

StatusAlwaysChanged(oldStatus, newStatus) == TRUE
\* line 640: oldStatus !== newStatus
StatusChanged(oldStatus, newStatus) == oldStatus # newStatus

\* line 1011: task.onStatusChange ?? config?.onStatusChange
CallbackCommand(task, global) ==
    IF task.onStatusChange # <<>> THEN task.onStatusChange ELSE global

CallbackOutcomes == {"success", "failure", "throws"}

\* Core.updateTask (lines 633-658) with executeStatusChangeCallback (lines
\* 1007-1037): the save, which may throw, then the callback, whose failure is
\* logged only
UpdateTask(op, input, task) ==
    LET oldStatus == IF stored = <<>> THEN "" ELSE stored[1].status
        newStatus == task.status
        written == [task EXCEPT !.updatedDate = <<clock + 1>>]
        command == CallbackCommand(task, globalCallback)
    IN  /\ edRequest' = <<[op |-> op, input |-> input]>>
        /\ clock' = clock + 1
        /\ \E saveFails \in BOOLEAN :
            IF saveFails
            THEN /\ edPc' = "thrown"
                 /\ edError' = "saveTask failed"
                 /\ callbacks' = <<>>
                 /\ edSaves' = <<>>
                 /\ stored' = stored
            ELSE /\ edPc' = "returned"
                 /\ edError' = ""
                 /\ stored' = <<written>>
                 /\ edSaves' = <<written>>
                 /\ IF StatusChanged(oldStatus, newStatus) /\ command # <<>>
                    THEN \E outcome \in CallbackOutcomes :
                            callbacks' = <<[command |-> command[1],
                                            oldStatus |-> oldStatus,
                                            newStatus |-> newStatus,
                                            outcome |-> outcome]>>
                    ELSE callbacks' = <<>>
        /\ UNCHANGED <<globalCallback, notEditVars>>

\* Core.updateTaskFromInput / Core.editTask (lines 660-1000, 1039-1041)
EditWith(op, input, given) ==
    IF stored = <<>> THEN EditThrows(op, input, "Task not found")
    ELSE LET st == ApplyInput(stored[1], given)
         IN  IF st.err # <<>> THEN EditThrows(op, input, st.err[1])
             ELSE IF ~st.mutated THEN EditReturnsUnsaved(op, input)
             ELSE /\ Len(st.task.acceptanceCriteriaItems) <= MaxCriteria
                  /\ UpdateTask(op, input, st.task)

UpdateTaskFromInput(input) ==
    /\ clock < MaxEdits
    /\ EditWith("updateTaskFromInput", input, input)

\* Core.createTaskFromInput with createTask / createDraft (lines 529-631)
CreateTaskFromInput(input) ==
    /\ clock < MaxEdits
    /\ stored = <<>>
    /\ LET op == "createTaskFromInput"
           checked == validateDependencies(input.dependencies[1])
           requested == IF input.status = <<>> THEN "" ELSE Trim(input.status[1])
           isDraft == StatusLowerCase(requested) = "draft"
           canonical == IF requested = "" THEN <<"">>
                        ELSE IF isDraft THEN <<"Draft">>
                        ELSE getCanonicalStatus(requested)
           criteria == NumberThenFilter(input.acceptanceCriteria[1])
       IN  IF Trim(input.title[1]) = ""
           THEN EditThrows(op, input, "Title is required to create a task.")
           ELSE IF DependenciesInvalid(checked)
           THEN EditThrows(op, input, "The following dependencies do not exist")
           ELSE IF canonical = <<>>
           THEN EditThrows(op, input, "Invalid status")
           ELSE
           LET task == EditTask(Trim(input.title[1]),
                                IF canonical[1] = "" THEN FALLBACK_STATUS
                                ELSE canonical[1],
                                <<>>, checked.valid, criteria, <<>>)
           IN  /\ edRequest' = <<[op |-> op, input |-> input]>>
               /\ clock' = clock + 1
               /\ callbacks' = <<>>
               /\ \E saveFails \in BOOLEAN :
                    IF saveFails
                    THEN /\ edPc' = "thrown"
                         /\ edError' = "saveTask failed"
                         /\ edSaves' = <<>>
                         /\ stored' = stored
                    ELSE /\ edPc' = "returned"
                         /\ edError' = ""
                         /\ edSaves' = <<task>>
                         /\ stored' = IF isDraft THEN stored ELSE <<task>>
               /\ UNCHANGED <<globalCallback, notEditVars>>

\* Core.addAcceptanceCriteria (lines 1321-1339)
AddAcceptanceCriteria(texts) ==
    /\ clock < MaxEdits
    /\ LET op == "addAcceptanceCriteria"
           input == [NoInput EXCEPT !.addAcceptanceCriteria = texts]
       IN  IF stored = <<>> THEN EditThrows(op, input, "Task not found")
           ELSE LET list == AppendCriteria(
                                stored[1].acceptanceCriteriaItems, texts)
                IN  /\ Len(list) <= MaxCriteria
                    /\ UpdateTask(op, input,
                          [stored[1] EXCEPT !.acceptanceCriteriaItems = list])

\* Core.removeAcceptanceCriteria (lines 1345-1377)
RemoveAcceptanceCriteria(indices) ==
    /\ clock < MaxEdits
    /\ LET op == "removeAcceptanceCriteria"
           input == [NoInput EXCEPT !.removeAcceptanceCriteria = indices]
       IN  IF stored = <<>> THEN EditThrows(op, input, "Task not found")
           ELSE LET current == stored[1].acceptanceCriteriaItems
                    removed == SeqToSet(indices) \cap Indices(current)
                    list == rebuildIndices(WithoutIndices(current, removed))
                IN  IF removed = {}
                    THEN EditThrows(op, input, "No criteria were removed.")
                    ELSE UpdateTask(op, input,
                          [stored[1] EXCEPT !.acceptanceCriteriaItems = list])

\* Core.checkAcceptanceCriteria (lines 1384-1420)
CheckAcceptanceCriteria(indices, checked) ==
    /\ clock < MaxEdits
    /\ LET op == "checkAcceptanceCriteria"
           input == IF checked
                    THEN [NoInput EXCEPT !.checkAcceptanceCriteria = indices]
                    ELSE [NoInput EXCEPT !.uncheckAcceptanceCriteria = indices]
       IN  IF stored = <<>> THEN EditThrows(op, input, "Task not found")
           ELSE LET current == stored[1].acceptanceCriteriaItems
                    updated == SeqToSet(indices) \cap Indices(current)
                    list == SetChecked(current, updated, checked)
                IN  IF updated = {}
                    THEN EditThrows(op, input, "No criteria were updated.")
                    ELSE UpdateTask(op, input,
                          [stored[1] EXCEPT !.acceptanceCriteriaItems = list])

\* options.status / args.status of a task event: absent or a status text
EventStatuses == {<<>>, <<"Done">>, <<"done">>, <<"draft">>, <<"Bogus">>}

\* the CLI command `task event` (cli.ts lines 1973-2051)
TaskEventCli(status) ==
    /\ clock < MaxEdits
    /\ LET op == "task event"
           canonical == IF status = <<>> THEN <<>>
                        ELSE getCanonicalStatus(status[1])
           recorded == IF canonical # <<>> THEN canonical[1]
                       ELSE stored[1].status
           input == [NoInput EXCEPT
                        !.status = canonical,
                        !.addToHistory = <<HistoryEntry(recorded, "event")>>]
       IN  IF stored = <<>>
           THEN EditThrows(op, [NoInput EXCEPT !.status = status],
                           "Task not found")
           ELSE IF status # <<>> /\ canonical = <<>>
           THEN EditThrows(op, [NoInput EXCEPT !.status = status],
                           "Invalid status")
           ELSE EditWith(op, input, input)

\* TaskHandlers.taskEvent of the MCP server (lines 725-769)
TaskEventMcp(status) ==
    /\ clock < MaxEdits
    /\ LET op == "task_event"
           recorded == IF status # <<>> THEN status[1] ELSE stored[1].status
           input == [NoInput EXCEPT
                        !.status = status,
                        !.addToHistory = <<HistoryEntry(recorded, "event")>>]
       IN  IF stored = <<>>
           THEN EditThrows(op, [NoInput EXCEPT !.status = status],
                           "Task not found")
           ELSE EditWith(op, input, input)

NextEdit ==
    \/ \E input \in FieldCreateInputs : CreateTaskFromInput(input)
    \/ \E input \in FieldInputs : UpdateTaskFromInput(input)
    \/ \E status \in EventStatuses : TaskEventCli(status)
    \/ \E status \in EventStatuses : TaskEventMcp(status)

SpecEdit == InitEdit /\ [][NextEdit]_vars

NextCriteria ==
    \/ \E input \in CriteriaCreateInputs : CreateTaskFromInput(input)
    \/ \E input \in CriteriaInputs : UpdateTaskFromInput(input)
    \/ \E texts \in {<<"a">>, <<"a", "b">>} : AddAcceptanceCriteria(texts)
    \/ \E indices \in IndexLists : RemoveAcceptanceCriteria(indices)
    \/ \E indices \in IndexLists, checked \in BOOLEAN :
            CheckAcceptanceCriteria(indices, checked)

SpecCriteria == InitCriteria /\ [][NextCriteria]_vars

(***************************************************************************)
(* TaskHandlers.archiveTask and TaskHandlers.completeTask of the MCP       *)
(* server.  A status is a sequence of characters, so that trim,            *)
(* toLowerCase and includes are computed.                                  *)
(***************************************************************************)
UpperCaseLetters == <<"A", "B", "C", "D", "E", "F", "G", "H", "I", "J", "K",
                      "L", "M", "N", "O", "P", "Q", "R", "S", "T", "U", "V",
                      "W", "X", "Y", "Z">>

LowerCaseLetters == <<"a", "b", "c", "d", "e", "f", "g", "h", "i", "j", "k",
                      "l", "m", "n", "o", "p", "q", "r", "s", "t", "u", "v",
                      "w", "x", "y", "z">>

\* String.prototype.toLowerCase
LowerCaseChars(chars) ==
    [k \in 1..Len(chars) |->
        IF \E n \in 1..26 : UpperCaseLetters[n] = chars[k]
        THEN LowerCaseLetters[CHOOSE n \in 1..26 :
                                  UpperCaseLetters[n] = chars[k]]
        ELSE chars[k]]

\* String.prototype.trim
RECURSIVE TrimChars(_)
TrimChars(chars) ==
    IF chars = <<>> THEN <<>>
    ELSE IF Head(chars) = " " THEN TrimChars(Tail(chars))
    ELSE IF chars[Len(chars)] = " "
    THEN TrimChars(SubSeq(chars, 1, Len(chars) - 1))
    ELSE chars

\* String.prototype.includes
Includes(chars, part) ==
    \E k \in 1..(Len(chars) - Len(part) + 1) :
        SubSeq(chars, k, k + Len(part) - 1) = part

\* TaskHandlers.isDoneStatus (task-edit-builder.ts lines 461-464)
isDoneStatus(status) ==
    LET normalized == LowerCaseChars(TrimChars(status))
    IN  \/ Includes(normalized, <<"d", "o", "n", "e">>)
        \/ Includes(normalized, <<"c", "o", "m", "p", "l", "e", "t", "e">>)

\* every task taken as editable
AnyTaskEditable(task) == TRUE

\* isLocalEditableTask (types, lines 76-78); source <<>> is undefined
isLocalEditableTask(task) ==
    task.source \in {<<>>, <<"local">>, <<"completed">>}

McpStatuses ==
    { <<>>,
      <<"T", "o", " ", "D", "o">>,
      <<"I", "n", " ", "P", "r", "o", "g", "r", "e", "s", "s">>,
      <<"D", "o", "n", "e">>,
      <<" ", "D", "O", "N", "E", " ">>,
      <<"C", "o", "m", "p", "l", "e", "t", "e", "d">>,
      <<"U", "n", "d", "o", "n", "e">>,
      <<"D", "o", "n", "'", "t">> }

McpSources ==
    {<<>>, <<"local">>, <<"completed">>, <<"remote">>, <<"local-branch">>}

\* the task core.getTask finds for the id of the request, if any, and the
\* directory that holds its file
InitMcp ==
    /\ CoreIdle
    /\ EditIdle
    /\ RaceIdle
    /\ SearchIdle
    /\ mcTask \in {<<>>} \cup
                  {<<[status |-> status, source |-> source]>> :
                        status \in McpStatuses, source \in McpSources}
    /\ mcPlace = IF mcTask = <<>> THEN "none"
                 ELSE IF mcTask[1].source = <<"completed">> THEN "completed"
                 ELSE IF mcTask[1].source \in {<<>>, <<"local">>} THEN "tasks"
                 ELSE "branch"
    /\ mcPc = "ready"
    /\ mcRequest = <<>>
    /\ mcError = ""

McpThrows(handler, code) ==
    /\ mcRequest' = <<handler>>
    /\ mcPc' = "thrown"
    /\ mcError' = code
    /\ UNCHANGED <<mcTask, mcPlace, notMcpVars>>

\* Core.archiveTask / Core.completeTask (lines 1222-1263) as the handler
\* sees them: true after the move, false without one, or the commit that
\* follows the move throws
McpMoves(handler, directory, failure) ==
    /\ mcRequest' = <<handler>>
    /\ \E outcome \in {"moved", "not moved", "commit throws"} :
          /\ mcPlace' = IF outcome = "not moved" THEN mcPlace ELSE directory
          /\ mcPc' = IF outcome = "moved" THEN "returned" ELSE "thrown"
          /\ mcError' = IF outcome = "moved" THEN ""
                        ELSE IF outcome = "not moved" THEN failure
                        ELSE "git"
    /\ UNCHANGED <<mcTask, notMcpVars>>

\* TaskHandlers.archiveTask (task-edit-builder.ts lines 651-672)
McpArchiveTask ==
    /\ mcPc = "ready"
    /\ IF mcTask = <<>> THEN McpThrows("task_archive", "TASK_NOT_FOUND")
       ELSE IF ~isLocalEditableTask(mcTask[1])
       THEN McpThrows("task_archive", "VALIDATION_ERROR")
       ELSE IF isDoneStatus(mcTask[1].status)
       THEN McpThrows("task_archive", "VALIDATION_ERROR")
       ELSE McpMoves("task_archive", "archive", "OPERATION_FAILED")

\* TaskHandlers.completeTask (task-edit-builder.ts lines 674-699)
McpCompleteTask ==
    /\ mcPc = "ready"
    /\ IF mcTask = <<>> THEN McpThrows("task_complete", "TASK_NOT_FOUND")
       ELSE IF ~isLocalEditableTask(mcTask[1])
       THEN McpThrows("task_complete", "VALIDATION_ERROR")
       ELSE IF ~isDoneStatus(mcTask[1].status)
       THEN McpThrows("task_complete", "VALIDATION_ERROR")
       ELSE McpMoves("task_complete", "completed", "OPERATION_FAILED")

NextMcp ==
    \/ McpArchiveTask
    \/ McpCompleteTask

SpecMcp == InitMcp /\ [][NextMcp]_vars

(***************************************************************************)
(* Claims on the task handlers                                             *)
(***************************************************************************)
\* C21: every ordinal the core persists is a positive integer: no stored
\* task carries an ordinal that is zero or negative.
C21_StoredOrdinalPositive ==
    \A k \in 1..Len(stored) :
        stored[k].ordinal # <<>> => stored[k].ordinal[1] > 0

\* the dependency ids a request gives (dependencies and addDependencies)
GivenDependencies(input) ==
    (IF input.dependencies = <<>> THEN {}
     ELSE SeqToSet(input.dependencies[1]))
        \cup SeqToSet(input.addDependencies)

KnownIds == SeqToSet(KnownTaskIds) \cup SeqToSet(KnownDraftIds)

DependenciesOf(file) ==
    UNION {SeqToSet(file[k].dependencies) : k \in 1..Len(file)}

C23_CallbackAfterSavedStatusChange ==
    [][\A k \in 1..Len(callbacks') :
          LET run == callbacks'[k]
          IN  /\ stored # <<>>
              /\ run.oldStatus = stored[1].status
              /\ run.newStatus # stored[1].status
              /\ edSaves' # <<>>
              /\ stored' = edSaves'
              /\ stored'[1].status = run.newStatus
              /\ edPc' = "returned"
              /\ run.command =
                    IF stored'[1].onStatusChange # <<>>
                    THEN stored'[1].onStatusChange[1]
                    ELSE globalCallback[1]]_vars

\* a task with its own command, under a configured global command, went to
\* Done; its callback threw, and the call returned with the task saved
C23_Witness ==
    /\ edPc = "returned"
    /\ globalCallback = <<"global">>
    /\ callbacks # <<>>
    /\ callbacks[1].command = "per-task"
    /\ callbacks[1].outcome = "throws"
    /\ callbacks[1].oldStatus = "To Do"
    /\ stored # <<>>
    /\ stored[1].status = "Done"

(***************************************************************************)
(* Two createTaskFromInput calls on one project, interleaved at the awaits *)
(* between generateNextId (line 534) and fs.saveTask / fs.saveDraft        *)
(***************************************************************************)
InitRace ==
    /\ CoreIdle
    /\ EditIdle
    /\ SearchIdle
    /\ McpIdle
    /\ rcTasks \in SUBSET (1..(MaxTaskNumber - 1))
    /\ rcDrafts \in SUBSET ((1..(MaxTaskNumber - 1)) \ rcTasks)
    /\ rcPc = [c \in RaceCalls |-> "start"]
    /\ rcId = [c \in RaceCalls |-> 0]
    /\ rcOverlapped = FALSE
    /\ rcWrites = <<>>

\* line 534: generateNextId over the task and draft files as they are now
RaceGenerateNextId(c) ==
    /\ rcPc[c] = "start"
    /\ LET n == generateNextId(rcTasks, rcDrafts, {}, {})
       IN  /\ n <= MaxTaskNumber + 1
           /\ rcId' = [rcId EXCEPT ![c] = n]
    /\ rcPc' = [rcPc EXCEPT ![c] = "generated"]
    /\ rcOverlapped' = (rcOverlapped
                          \/ \E d \in RaceCalls \ {c} : rcPc[d] = "generated")
    /\ UNCHANGED <<rcTasks, rcDrafts, rcWrites, notRaceVars>>

\* lines 540-548: an unknown dependency ends the call before any write
RaceRejects(c) ==
    /\ rcPc[c] = "generated"
    /\ rcPc' = [rcPc EXCEPT ![c] = "thrown"]
    /\ UNCHANGED <<rcTasks, rcDrafts, rcId, rcOverlapped, rcWrites,
                   notRaceVars>>

\* line 595: createDraft or createTask writes the file under the id
RaceSaves(c, asDraft) ==
    /\ rcPc[c] = "generated"
    /\ rcPc' = [rcPc EXCEPT ![c] = "saved"]
    /\ IF asDraft
       THEN rcDrafts' = rcDrafts \cup {rcId[c]} /\ rcTasks' = rcTasks
       ELSE rcTasks' = rcTasks \cup {rcId[c]} /\ rcDrafts' = rcDrafts
    /\ rcWrites' = Append(rcWrites, [call |-> c, id |-> rcId[c]])
    /\ UNCHANGED <<rcId, rcOverlapped, notRaceVars>>

NextRace ==
    \/ \E c \in RaceCalls : RaceGenerateNextId(c)
    \/ \E c \in RaceCalls : RaceRejects(c)
    \/ \E c \in RaceCalls, asDraft \in BOOLEAN : RaceSaves(c, asDraft)

SpecRace == InitRace /\ [][NextRace]_vars

\* C24: two createTaskFromInput calls that overlap (the second calls
\* generateNextId before the first has saved) are given distinct ids.
C24_OverlappingCreatesDistinctIds ==
    rcOverlapped
    => \A c, d \in RaceCalls :
          (c # d /\ rcId[c] # 0 /\ rcId[d] # 0) => rcId[c] # rcId[d]

(***************************************************************************)
(* Core.getSearchService (lines 143-150) next to Core.getContentStore,     *)
(* with no dispose call                                                    *)
(***************************************************************************)
InitSearch ==
    /\ LoadIdle
    /\ ReorderIdle
    /\ OrderingIdle
    /\ EditIdle
    /\ RaceIdle
    /\ McpIdle
    /\ contentStore = 0
    /\ stores = <<>>
    /\ callerPc = [c \in Callers |-> "idle"]
    /\ callerStore = [c \in Callers |-> 0]
    /\ searchService = 0
    /\ services = <<>>
    /\ searchPc = [c \in SearchCallers |-> "idle"]
    /\ searchGot = [c \in SearchCallers |-> 0]

\* lines 144-145 and 148: with no service yet, call getContentStore and
\* suspend in its await; with one, suspend in its ensureInitialized()
GetSearchService(c) ==
    /\ searchPc[c] = "idle"
    /\ IF searchService = 0
       THEN LET construct == MustConstruct(contentStore)
                created == IF construct THEN Append(stores, NewStore)
                           ELSE stores
                cs == IF construct THEN Len(created) ELSE contentStore
            IN  /\ Len(created) <= MaxStores
                /\ contentStore' = cs
                /\ stores' = [created EXCEPT
                                ![cs] = ensureInitialized(created[cs])]
                /\ searchPc' = [searchPc EXCEPT ![c] = "awaitingStore"]
       ELSE /\ searchPc' = [searchPc EXCEPT ![c] = "awaitingService"]
            /\ UNCHANGED <<contentStore, stores>>
    /\ UNCHANGED <<callerPc, callerStore, searchService, services, searchGot,
                   notSearchVars>>

\* lines 145-148: the store is returned; construct the SearchService, assign
\* the field and suspend in ensureInitialized()
SearchServiceConstructed(c) ==
    /\ searchPc[c] = "awaitingStore"
    /\ stores[contentStore].state = "Ready"
    /\ services' = Append(services, [store |-> contentStore])
    /\ searchService' = Len(services) + 1
    /\ searchPc' = [searchPc EXCEPT ![c] = "awaitingService"]
    /\ UNCHANGED <<storeVars, searchGot, notSearchVars>>

\* line 149: return this.searchService
GetSearchServiceReturns(c) ==
    /\ searchPc[c] = "awaitingService"
    /\ searchGot' = [searchGot EXCEPT ![c] = searchService]
    /\ searchPc' = [searchPc EXCEPT ![c] = "returned"]
    /\ UNCHANGED <<storeVars, searchService, services, notSearchVars>>

NextSearch ==
    \/ \E c \in Callers : GetContentStore(c)
    \/ \E s \in 1..Len(stores) : HydrationCompletes(s)
    \/ \E c \in Callers : GetContentStoreReturns(c)
    \/ \E c \in Callers : CallerContinues(c)
    \/ \E c \in SearchCallers : GetSearchService(c)
    \/ \E c \in SearchCallers : SearchServiceConstructed(c)
    \/ \E c \in SearchCallers : GetSearchServiceReturns(c)

SpecSearch == InitSearch /\ [][NextSearch]_vars

\* C25: with no dispose call, concurrent getContentStore and
\* getSearchService calls construct at most one ContentStore and at most one
\* SearchService, and every caller is returned that one instance.
C25_OneStoreOneSearchService ==
    /\ Len(stores) <= 1
    /\ Len(services) <= 1
    /\ \A c \in Callers : callerPc[c] = "returned" => callerStore[c] = 1
    /\ \A c \in SearchCallers : searchPc[c] = "returned" => searchGot[c] = 1

\* a task file without its updatedDate
FieldsOf(file) == [k \in 1..Len(file) |-> [file[k] EXCEPT !.updatedDate = <<>>]]

\* C26: updateTaskFromInput persists nothing unless it succeeds with an
\* actual change: when it throws, or when the input changes no field, the
\* stored task (its updatedDate included) is unchanged, nothing is saved and
\* no status callback runs.
C26_NoWriteWithoutChange ==
    [][\A k \in 1..Len(edRequest') :
          (/\ edRequest'[k].op = "updateTaskFromInput"
           /\ edPc' = "thrown" \/ FieldsOf(stored') = FieldsOf(stored))
          => /\ stored' = stored
             /\ edSaves' = <<>>
             /\ callbacks' = <<>>]_vars

\* the loaded original of a changed task
OriginalOf(task) == roOriginal[IndexOf(roOriginal, task.id)]

\* C27: reorderTask writes only what changed: every task in changedTasks
\* differs from its loaded original in ordinal, status or milestone; only
\* changed tasks are saved, so when nothing differs nothing is saved; and a
\* task other than the moved one keeps its status and milestone.
C27_OnlyChangedTasksWritten ==
    /\ \A k \in 1..Len(roChanged) :
          LET task == roChanged[k]
              original == OriginalOf(task)
          IN  /\ \/ original.ordinal # task.ordinal
                 \/ original.status # task.status
                 \/ original.milestone # task.milestone
              /\ task.id # roRequest[1].taskId
                 => /\ task.status = original.status
                    /\ task.milestone = original.milestone
    /\ SavedIds \subseteq {roChanged[k].id : k \in 1..Len(roChanged)}

\* three tasks were loaded; the moved one and one neighbour, whose ordinal had
\* to shift, were written and the third was left alone
C27_Witness ==
    /\ roPc = "returned"
    /\ Len(roOriginal) = 3
    /\ Len(roChanged) = 2
    /\ Len(saved) = 2
    /\ \E k \in 1..Len(roChanged) :
          /\ roChanged[k].id # roRequest[1].taskId
          /\ roChanged[k].ordinal # OriginalOf(roChanged[k]).ordinal

\* the k-th criterion of every task of the list carries the index k
Contiguous(tasks) ==
    \A t \in 1..Len(tasks) :
        \A k \in 1..Len(tasks[t].acceptanceCriteriaItems) :
            tasks[t].acceptanceCriteriaItems[k].index = k

\* C28: after any sequence of task creation and acceptance-criteria set,
\* add, remove, check and uncheck operations, the acceptance criteria of a
\* task carry the indices 1..n exactly once each, in list order.
C28_CriteriaIndicesContiguous == Contiguous(stored) /\ Contiguous(edSaves)

\* the history of the stored task, empty when no task is stored
HistoryOf(tasks) == IF tasks = <<>> THEN <<>> ELSE tasks[1].history

IsPrefix(a, b) == Len(a) <= Len(b) /\ SubSeq(b, 1, Len(a)) = a

\* C29: task history is append-only: every operation keeps the existing
\* entries as a prefix of the history, every successful task event (CLI or
\* MCP) adds exactly one entry at the end, and the status recorded in that
\* entry equals the status the task has after the event.
C29_HistoryAppendOnly ==
    [][/\ IsPrefix(HistoryOf(stored), HistoryOf(stored'))
       /\ (/\ clock' # clock
           /\ edRequest'[1].op \in {"task event", "task_event"}
           /\ edPc' = "returned")
          => /\ Len(HistoryOf(stored')) = Len(HistoryOf(stored)) + 1
             /\ HistoryOf(stored')[Len(HistoryOf(stored'))].status
                    = stored'[1].status]_vars

\* the task of the request exists with a source that marks it as local
LocallyEditable ==
    /\ mcTask # <<>>
    /\ mcTask[1].source \in {<<>>, <<"local">>, <<"completed">>}

\* the status of the task of the request is done-like
DoneLike == mcTask # <<>> /\ isDoneStatus(mcTask[1].status)

\* C30: through the MCP handlers a task is moved to the completed folder
\* only if it is locally editable and its status is done-like, and is
\* archived only if it is locally editable and its status is not done-like;
\* in every other case the handler throws and the task stays where it was.
C30_McpMovesOnlyEligibleTasks ==
    [][/\ mcRequest' = <<"task_complete">>
            => IF LocallyEditable /\ DoneLike
               THEN mcPlace' \in {mcPlace, "completed"}
               ELSE mcPc' = "thrown" /\ mcPlace' = mcPlace
       /\ mcRequest' = <<"task_archive">>
            => IF LocallyEditable /\ ~DoneLike
               THEN mcPlace' \in {mcPlace, "archive"}
               ELSE mcPc' = "thrown" /\ mcPlace' = mcPlace]_vars

\* a local task whose status reads " DONE " was moved from the tasks
\* directory to the completed folder by the completion handler
C30_Witness ==
    /\ mcPc = "returned"
    /\ mcRequest = <<"task_complete">>
    /\ mcPlace = "completed"
    /\ mcTask # <<>>
    /\ mcTask[1].source = <<"local">>
    /\ mcTask[1].status = <<" ", "D", "O", "N", "E", " ">>

====
